---- MODULE Spec2Model ----
(***************************************************************************)
(* State-machine model of the NIC telemetry collection engine of           *)
(* smc-exporter (src/collector/nic-module.go, the current revision that    *)
(* starts at line 774, and the collection loop of src/smc-exporter.go).    *)
(*                                                                         *)
(*   Spec      the collection loop, UpdateMetrics, its runMlxlink tasks,   *)
(*             the cache arbiter and the scrape readers                    *)
(*   ReadFairSpec  Spec with the fairness of the Go scheduler for the      *)
(*             arbiter and the readers only (a diagnostic tool may hang)   *)
(*   FreshSpec  Spec with the start of every getCachedMetrics call         *)
(*             observed                                                    *)
(*   BusyFairSpec  the same engine with handlers that never stop calling,  *)
(*             under the fairness of the select statement                  *)
(*   SlotSpec  Slots.getSlot applied to bounded slot lists                 *)
(*   ReportSpec  parseSlots applied to bounded firmware reports            *)
(*   DecodeSpec  getSlot, parseOutput and Collect applied to the bounded   *)
(*             payloads of one task                                        *)
(*   TopologySpec  getPciAddress2DeviceInfo applied to bounded hosts       *)
(*   RepeatSpec  getPciAddress2DeviceInfo called in several cycles on one  *)
(*             host                                                        *)
(*   IdentitySpec  getPciAddress2DeviceInfo and the dispatch loop of       *)
(*             UpdateMetrics applied to bounded hosts and adapter lists    *)
(***************************************************************************)
EXTENDS Integers, Sequences, FiniteSets, Bags, TLC

(* ------------------------------ bounds -------------------------------- *)
MaxAdapters == 2          \* adapters lspci can list in one cycle
MaxTasks    == 3          \* adapters listed over all cycles of a run
MaxCycles   == 2          \* iterations of the collection loop
NumReaders  == 2          \* concurrent scrape handlers
MaxReads    == 2          \* getCachedMetrics calls of all handlers
MaxSlots    == 2          \* slot-information blocks of the firmware report
MaxLanes    == 2          \* entries of a per-lane list of the payload
MaxBins     == 2          \* bins of the FEC histogram of the payload
MaxRuns     == 2          \* calls of getPciAddress2DeviceInfo on one host

Adapters == 1..MaxAdapters
Readers  == 1..NumReaders

VARIABLES
    \* ---- cache arbiter: manageCachedMetricsAccess ----
    apc,            \* "select" | "respond" (blocked in request.resp <- cachedMetrics)
    arbReq,         \* reader whose request the arbiter holds (0: none)
    cachedMetrics,  \* the goroutine-local current snapshot
    \* ---- scrape readers: getCachedMetrics ----
    rpc,            \* per reader: "idle" | "send" | "recv"
    got,            \* per reader: the snapshot its last call returned
    nreads,         \* getCachedMetrics calls started so far
    startGen,       \* per observed call of a reader: the generation last published at its start
    \* ---- collection loop and UpdateMetrics ----
    wpc,            \* "idle" | "discovering" | "dispatching" | "awaiting" | "publishing"
    cycle,          \* number of UpdateMetrics calls started
    devices,        \* adapters discovered in this cycle
    ntasks,         \* adapters discovered so far, over all cycles
    discErr,        \* discoverMellanoxDevices returned an error in this cycle
    di,             \* number of tasks launched by the dispatch loop
    received,       \* number of responses the await loop has received
    metrics,        \* the list the await loop is building
    \* ---- runMlxlink tasks ----
    tpc,            \* per adapter: "none" | "exec" | "send" | "done" | "panicked"
    tout,           \* per adapter: what the tool produced, until its response is taken
    resp,           \* per adapter: the runMlxlinkResponse it sends
    nexec,          \* per adapter: invocations of the tool in this cycle
    nsent,          \* per adapter: responses delivered on the channel
    crashed,        \* the process was ended by a runtime panic
    \* ---- history ----
    published,      \* the lists accepted from cacheMetrics, in order
    \* ---- Slots.getSlot ----
    slots,          \* the parsed slot inventory
    device,         \* the bus/device part of the adapter address
    slotOf,         \* per function number: result of getSlot, or NotRun
    \* ---- parseSlots ----
    blocks,         \* the slot-information blocks of the firmware report
    parsed,         \* result of parseSlots on the report, or NotRun
    \* ---- parseOutput and Collect ----
    payload,        \* the tool output, the device and the slot inventory of one task
    dpc,            \* "idle" | "parse" | "panicked" | "cached" | "collected"
    decoded,        \* the PortMetrics parseOutput returned, once dpc is "cached"
    emitted,        \* the observations Collect sent for it, once dpc is "collected"
    \* ---- getPciAddress2DeviceInfo ----
    host,           \* what /sys, /proc/net/bonding and ibdev2netdev show
    gpc,            \* "idle" | "start" | "loop" | "done"
    unvisited,      \* controllers the range loop has not visited yet
    pciAddress2DeviceInfo,  \* the map from bus address to DeviceInfo being built
    earlier,        \* the maps the earlier calls on this host returned
    \* ---- UpdateMetrics, the dispatch loop ----
    found,          \* the DeviceInfo list of discoverMellanoxDevices
    launched        \* the arguments of the go n.runMlxlink statements so far

vars == <<apc, arbReq, cachedMetrics, rpc, got, nreads, startGen, wpc, cycle, devices,
          ntasks, discErr, di, received, metrics, tpc, tout, resp, nexec, nsent, crashed,
          published, slots, device, slotOf, blocks, parsed, payload, dpc, decoded, emitted,
          host, gpc, unvisited, pciAddress2DeviceInfo, earlier, found, launched>>

cacheVars == <<apc, arbReq, cachedMetrics, rpc, got, nreads, startGen, wpc, cycle, devices,
               ntasks, discErr, di, received, metrics, tpc, tout, resp, nexec, nsent, crashed,
               published>>
slotVars  == <<slots, device, slotOf>>
reportVars == <<blocks, parsed>>
decodeVars == <<payload, dpc, decoded, emitted>>
topologyVars == <<host, gpc, unvisited, pciAddress2DeviceInfo, earlier>>
identityVars == <<found, launched>>
leafVars  == <<reportVars, decodeVars, topologyVars, identityVars>>

(* ------------------------- data of one cycle -------------------------- *)

\* A PortMetrics value.  Only the identity of the adapter is kept; cyc is
\* the cycle whose parseOutput call created the record ("created fresh per
\* adapter per cycle"), which is what tells two generations apart.
PortMetrics(a, c) == [adapter |-> a, cyc |-> c]

\* PortMetrics{}: the zero value a failed task sends.
ZeroPortMetrics == [adapter |-> 0, cyc |-> 0]

\* A []PortMetrics as it travels through the cache.  gen is 0 for the nil
\* slice the arbiter starts with and k for the slice made by the k-th call
\* of UpdateMetrics; recs is its contents.
Snapshot(g, l) == [gen |-> g, recs |-> l]

\* var cachedMetrics []PortMetrics
InitialSnapshot == Snapshot(0, <<>>)

(* --------------------- the diagnostic tool's output ------------------- *)

\* The two status messages runMlxlink tolerates on a non-zero exit.
FecActiveOnly   == "FEC Histogram is valid with active link operation only"
FecNotSupported == "FEC Histogram is not supported for the current device"

\* A status message is a sequence of phrases; strings.Contains(message, p).
Contains(message, p) == \E i \in 1..Len(message) : message[i] = p

\* One value of a gjson array: text that strconv.ParseFloat accepts or not.
Num(n)  == [num |-> TRUE,  val |-> n]
Text(n) == [num |-> FALSE, val |-> n]

\* strconv.ParseFloat(s, 64): the value and whether err == nil.
ParseFloat(t) == IF t.num THEN [ok |-> TRUE, v |-> t.val] ELSE [ok |-> FALSE, v |-> 0]

\* strconv.Atoi of one character and strconv.Itoa of a small number.
Atoi(c) ==
    IF c \in {"0", "1", "2", "3"}
    THEN [ok |-> TRUE, n |-> ("0" :> 0 @@ "1" :> 1 @@ "2" :> 2 @@ "3" :> 3)[c]]
    ELSE [ok |-> FALSE, n |-> 0]
Itoa(n) == <<"0", "1", "2", "3", "4", "5", "6", "7", "8", "9">>[n + 1]

\* "Bin "+strconv.Itoa(i)
BinKey(i) == <<"Bin 0", "Bin 1", "Bin 2", "Bin 3">>[i + 1]

\* result.output."Histogram of FEC Errors": absent, or a map from key to
\* the "values" array under that key.
NoHist     == [exists |-> FALSE, bins |-> <<>>]
Hist(bins) == [exists |-> TRUE, bins |-> bins]

\* numBins := len(fecErrorBins) - 1
NumBins(h) == Cardinality(DOMAIN h.bins) - 1

\* parseOutput, FEC histogram block: TRUE when the block ends in a runtime
\* panic: make([]float64, numBins) with numBins < 0, or index [1] of a
\* "values" array that is missing (gjson gives an empty array for a key
\* that does not exist) or has fewer than two elements.
FecPanics(h) ==
    /\ h.exists
    /\ \/ NumBins(h) < 0
       \/ \E i \in 0..(NumBins(h) - 1) :
             \/ BinKey(i) \notin DOMAIN h.bins
             \/ Len(h.bins[BinKey(i)]) < 2

\* Mutant of FecErrors: a count that cannot be parsed is stored as 0.
FecErrorsZeroOnError(h) ==
    IF ~h.exists THEN <<>>
    ELSE [i \in 1..NumBins(h) |-> ParseFloat(h.bins[BinKey(i - 1)][2]).v]

\* parseOutput, FEC histogram block: metrics.fecErrors when it does not panic.
FecErrors(h) ==
    IF ~h.exists THEN <<>>
    ELSE [i \in 1..NumBins(h) |->
            LET p == ParseFloat(h.bins[BinKey(i - 1)][2])
            IN  IF p.ok THEN p.v ELSE -1]

\* What one mlxlink invocation produced: exit status (err == nil iff 0),
\* status.message and the histogram of the payload.
ToolOutput(e, m, h) == [exit |-> e, msg |-> m, hist |-> h]

GoodHist    == Hist([k \in {"Header", "Bin 0", "Bin 1"} |-> <<Text(0), Num(7)>>])
MissingBin0 == Hist([k \in {"Header", "Bin 1", "Bin 2"} |-> <<Text(0), Num(7)>>])
EmptyMap    == Hist(<<>>)

\* The outcomes a task draws its invocation from: a clean run, a clean run
\* whose histogram lacks "Bin 0", the two tolerated failures on an empty
\* payload, a tolerated failure with an empty histogram object, and a hard
\* failure.
NoOutput == ToolOutput(0, <<>>, NoHist)

ToolOutputs ==
    { ToolOutput(0, <<>>, GoodHist),
      ToolOutput(0, <<>>, MissingBin0),
      ToolOutput(1, <<FecActiveOnly>>, NoHist),
      ToolOutput(1, <<"mlxlink:", FecNotSupported>>, NoHist),
      ToolOutput(1, <<FecNotSupported>>, EmptyMap),
      ToolOutput(1, <<"No such device">>, GoodHist) }

\* Mutant of ValidOutput: only the first of the two messages is tolerated.
ValidOutputActiveOnly(out) ==
    \/ out.exit = 0
    \/ Contains(out.msg, FecActiveOnly)

\* runMlxlink: valid_output
ValidOutput(out) ==
    \/ out.exit = 0
    \/ Contains(out.msg, FecActiveOnly)
    \/ Contains(out.msg, FecNotSupported)

\* Mutant of PcAfterTool: a task whose output is not valid runs the tool again.
PcAfterToolRetry(valid_output) == IF valid_output THEN "send" ELSE "exec"

\* runMlxlink: where the task is after cmd.CombinedOutput() has returned
\* and valid_output is decided: at a send of its response, in both
\* branches; the function has no loop.
PcAfterTool(valid_output) == "send"

\* parseOutput panics on this payload.
ParsePanics(out) == FecPanics(out.hist)

\* runMlxlinkResponse{metrics, false} and runMlxlinkResponse{PortMetrics{}, true}
Response(m, e) == [result |-> m, error |-> e]
NoResponse == Response(ZeroPortMetrics, FALSE)

\* Mutant of AwaitAppend: the result is appended whatever response.error is.
AwaitAppendAlways(ms, r) == Append(ms, r.result)

\* Mutant of AwaitAppend: the result is stored in one shared place, where
\* it replaces the result of the task that finished before.
AwaitAppendLast(ms, r) == IF ~r.error THEN <<r.result>> ELSE ms

\* UpdateMetrics, body of the await loop: metrics after one response.
AwaitAppend(ms, r) == IF ~r.error THEN Append(ms, r.result) ELSE ms

\* Mutant of ArbWriteValue: a list is only stored while the cache has none.
ArbWriteValueFirstWins(old, new) == IF old.gen = 0 THEN new ELSE old

\* Mutant of ArbWriteValue: the new list is appended to the cached one.
ArbWriteValueAppend(old, new) == Snapshot(new.gen, old.recs \o new.recs)

\* Mutant of ArbWriteValue: an empty list resets the cache to its nil start value.
ArbWriteValueNilOnEmpty(old, new) == IF new.recs = <<>> THEN InitialSnapshot ELSE new

\* Mutant of ArbWriteValue: an empty list is dropped and the cache keeps its value.
ArbWriteValueKeepOnEmpty(old, new) == IF new.recs = <<>> THEN old ELSE new

\* manageCachedMetricsAccess: cachedMetrics = newValue
ArbWriteValue(old, new) == new

\* Mutant of ReadCaseReady: requests are only taken between two cycles.
ReadCaseReadyBetweenCycles(r) == rpc[r] = "send" /\ wpc = "idle"

\* manageCachedMetricsAccess: the read case of the select is ready for r.
ReadCaseReady(r) == rpc[r] = "send"

(* ------------------------- the name-to-code tables -------------------- *)

\* A speed in bits per second, the float64 mant * 10^zeros, kept as
\* mantissa and decimal exponent.
Bps(m, z) == [mant |-> m, zeros |-> z]

\* The zero value of a float64 field that holds a speed.
ZeroBps == Bps(0, 0)

\* var stateValues
stateValues ==
    ("Disable" :> 0) @@ ("Port PLL Down" :> 1) @@ ("Polling" :> 2) @@
    ("Active" :> 3) @@ ("Close port" :> 4) @@ ("Physical LinkUp" :> 5) @@
    ("Sleep" :> 6) @@ ("Rx disable" :> 7) @@ ("Signal detect" :> 8) @@
    ("Receiver detect" :> 9) @@ ("Sync peer" :> 10) @@ ("Negotiation" :> 11) @@
    ("Training" :> 12) @@ ("SubFSM active" :> 13)

\* var speed2bps
speed2bps ==
    ("IB-SDR" :> Bps(1, 10)) @@ ("IB-DDR" :> Bps(2, 10)) @@ ("IB-QDR" :> Bps(4, 10)) @@
    ("IB-FDR10" :> Bps(4, 10)) @@ ("IB-FDR" :> Bps(56, 9)) @@ ("IB-EDR" :> Bps(1, 11)) @@
    ("IB-HDR" :> Bps(2, 11)) @@ ("IB-NDR" :> Bps(4, 11)) @@ ("IB-XDR" :> Bps(8, 11)) @@
    ("BaseTx100M" :> Bps(1, 8)) @@ ("BaseT1000M" :> Bps(1, 9)) @@ ("BaseT10M" :> Bps(1, 7)) @@
    ("CX" :> Bps(1, 9)) @@ ("KX" :> Bps(1, 9)) @@ ("CX4" :> Bps(1, 10)) @@
    ("KX4" :> Bps(1, 10)) @@ ("BaseT10G" :> Bps(1, 10)) @@ ("10GbE" :> Bps(1, 10)) @@
    ("20GbE" :> Bps(2, 10)) @@ ("25GbE" :> Bps(25, 9)) @@ ("40GbE" :> Bps(4, 10)) @@
    ("50GbE" :> Bps(5, 10)) @@ ("56GbE" :> Bps(56, 9)) @@ ("100GbE" :> Bps(1, 11)) @@
    ("100M" :> Bps(1, 8)) @@ ("1G" :> Bps(1, 9)) @@ ("2.5G" :> Bps(25, 8)) @@
    ("5G" :> Bps(5, 9)) @@ ("10G" :> Bps(1, 10)) @@ ("40G" :> Bps(4, 10)) @@
    ("25G" :> Bps(25, 9)) @@ ("50G" :> Bps(5, 10)) @@ ("100G" :> Bps(1, 11)) @@
    ("200G" :> Bps(2, 11)) @@ ("400G" :> Bps(4, 11)) @@ ("800G" :> Bps(8, 11)) @@
    ("10M" :> Bps(1, 7))

\* var physicalStateValues
physicalStateValues ==
    ("Disabled" :> 0) @@ ("Initializing" :> 1) @@ ("Recover Config" :> 2) @@
    ("Config Test" :> 3) @@ ("Wait Remote Test" :> 4) @@
    ("Wait Config Enhanced" :> 5) @@ ("Config Idle" :> 6) @@ ("LinkUp" :> 7) @@
    ("ETH_AN_FSM_ENABLE" :> 10) @@ ("ETH_AN_FSM_XMIT_DISABLE" :> 11) @@
    ("ETH_AN_FSM_ABILITY_DETECT" :> 12) @@ ("ETH_AN_FSM_ACK_DETECT" :> 13) @@
    ("ETH_AN_FSM_COMPLETE_ACK" :> 14) @@ ("ETH_AN_FSM_AN_GOOD_CHECK" :> 15) @@
    ("ETH_AN_FSM_NEXT_PAGE_WAIT" :> 17) @@ ("ETH_AN_FSM_LINK_STAT_CHECK" :> 18) @@
    ("ETH_AN_FSM_EXTRA_TUNE" :> 9) @@ ("ETH_AN_FSM_FIX_REVERSALS" :> 10) @@
    ("ETH_AN_FSM_IB_FAIL" :> 11) @@ ("ETH_AN_FSM_POST_LOCK_TUNE" :> 12)

\* var moduleStateValues
moduleStateValues ==
    ("N/A" :> 0) @@ ("LowPwr state" :> 1) @@ ("PwrUp state" :> 2) @@
    ("Ready state" :> 3) @@ ("PwrDn state" :> 4) @@ ("Fault state" :> 5)

\* var dataPathStateValues
dataPathStateValues ==
    ("N/A" :> 0) @@ ("DPDeactivated" :> 1) @@ ("DPInit" :> 2) @@
    ("DPDeinit" :> 3) @@ ("DPActivated" :> 4) @@ ("DPTxTurnOn" :> 5) @@
    ("DPTxTurnOff" :> 6) @@ ("DPInitialized" :> 7)

\* Mutant of Lookup: a name that is not in the table gives -1.
LookupOrMinusOne(table, name, zero) ==
    IF name \in DOMAIN table THEN table[name] ELSE -1

\* if value, ok := table[name]; ok { field = value }, and table[name] used
\* as a value: the table code, or the zero value the field already has.
Lookup(table, name, zero) ==
    IF name \in DOMAIN table THEN table[name] ELSE zero

(* ---------------------------- Slots.getSlot --------------------------- *)

\* A bus address is the sequence of its characters; "" is <<>>.
Addr(dev, fn) == dev \o <<".", fn>>

\* The bus/device parts of the adapters and the addresses a slot block of
\* the firmware report can carry (none, a function 0, a function 1).
DeviceParts   == { <<"1", "a">>, <<"1", "b">> }
SlotAddresses == { <<>> } \cup { Addr(d, f) : d \in DeviceParts, f \in {"0", "1"} }

\* parseSlots: SlotNumber is the first run of digits of the designation.
SlotNumberOf(designation) ==
    CASE designation = "PCIe Slot 38" -> "38"
      [] designation = "PCIe Slot 40" -> "40"
      [] OTHER -> ""

Designations == { "PCIe Slot 38", "PCIe Slot 40", "Riser" }

\* type SlotInfo, as parseSlots fills it.
SlotInfo(d, b) == [Designation |-> d, BusAddress |-> b, SlotNumber |-> SlotNumberOf(d)]
SlotInfos == { SlotInfo(d, b) : d \in Designations, b \in SlotAddresses }

\* utf8.ValidString: every text of this model is valid but this one.
InvalidText == "\\xff"
ValidString(t) == t # InvalidText

\* Mutant of SlotAddress: the function number is not replaced.
SlotAddressRaw(pciAddress) == pciAddress

\* getSlot: slotAddress := pciAddress[:len(pciAddress)-1] + "0"
SlotAddress(pciAddress) == SubSeq(pciAddress, 1, Len(pciAddress) - 1) \o <<"0">>

\* Slots.getSlot
getSlot(s, pciAddress) ==
    LET slotAddress == SlotAddress(pciAddress)
        hits == { i \in 1..Len(s) : s[i].BusAddress = slotAddress }
    IN  IF hits = {} THEN ""
        ELSE LET first == CHOOSE i \in hits : \A j \in hits : i <= j
             IN  IF ValidString(s[first].SlotNumber)
                 THEN s[first].SlotNumber
                 ELSE "unknown"

(* ------------------------------ parseOutput --------------------------- *)

\* A string of the payload that holds numbers: absent (gjson gives ""), or
\* the comma-separated entries of the text, each one text that
\* strconv.ParseFloat accepts (Num) or rejects (Text, as "-" or "1.2.3").
NoField       == [exists |-> FALSE, entries |-> <<>>]
Field(es)     == [exists |-> TRUE,  entries |-> es]

\* valuesRegex.FindStringSubmatch(s) != nil: the text has a character of
\* the class [\d\.,\-]; matches[1] is then the text of the entries.
ValuesMatch(f) == f.exists /\ f.entries # <<>>

\* gjson Result.Float() of a value of the payload: 0 when it is absent or
\* is not a number.
Float(f) == IF ValuesMatch(f) THEN ParseFloat(f.entries[1]).v ELSE 0

\* parseFloats: the values, or an empty array as soon as one entry cannot
\* be parsed.
parseFloats(es) ==
    IF \E i \in 1..Len(es) : ~ParseFloat(es[i]).ok
    THEN <<>>
    ELSE [i \in 1..Len(es) |-> ParseFloat(es[i]).v]

\* parseOutput: a per-lane list, as rxPower: empty unless the regular
\* expression matches, then what parseFloats returns.
LaneValues(f) == IF ValuesMatch(f) THEN parseFloats(f.entries) ELSE <<>>

\* Mutant of ScalarValue: the value is multiplied by 1000.
ScalarValueTimes1000(f) ==
    IF ValuesMatch(f) THEN ParseFloat(f.entries[1]).v * 1000 ELSE 0

\* parseOutput: a scalar, as voltage: zero unless the regular expression
\* matches, then what strconv.ParseFloat returns (0 with an error).
ScalarValue(f) == IF ValuesMatch(f) THEN ParseFloat(f.entries[1]).v ELSE 0

\* Mutant of CableType: every module is taken for an optical one.
CableTypeAlwaysOptical(cableTypeValue) == "optical"

\* parseOutput: cableType from the "Cable Type" text.
CableType(cableTypeValue) ==
    IF Contains(cableTypeValue, "Optic") THEN "optical"
    ELSE IF Contains(cableTypeValue, "Copper") \/ Contains(cableTypeValue, "copper")
         THEN "copper"
         ELSE ""

\* The "Attenuation (speeds) [dB]" key of the module info: absent, or the
\* speeds named in the key and the entries of its value.
NoAttenuation        == [exists |-> FALSE, speeds |-> <<>>, entries |-> <<>>]
Attenuation(sp, es)  == [exists |-> TRUE,  speeds |-> sp,   entries |-> es]

\* parseOutput, copper branch: metrics.attenuation, the values zipped by
\* position with the speeds of the key.
AttenuationMap(att) ==
    IF ~att.exists THEN <<>>
    ELSE LET values == parseFloats(att.entries)
             n      == IF Len(values) < Len(att.speeds) THEN Len(values) ELSE Len(att.speeds)
         IN  [k \in { att.speeds[i] : i \in 1..n } |->
                 values[CHOOSE i \in 1..n :
                           /\ att.speeds[i] = k
                           /\ \A j \in 1..n : att.speeds[j] = k => j <= i]]

\* parseOutput: metrics.serial
Serial(text) == IF ~ValidString(text) THEN "unknown" ELSE text

\* Mutant of ModeGate: the symbol counters are decoded in every mode.
ModeGateOpen(mode) == TRUE

\* parseOutput and Collect: if mode == "infiniband"
ModeGate(mode) == mode = "infiniband"

\* A gjson array element that is the text "N/A"; Text(n) with n >= 0 is
\* another text.
NotAvailable == Text(-1)

\* parseOutput: snrMedia and snrHost, the Float() of every element of the
\* "values" array unless the array is the single text "N/A"; rawErrors is
\* the same without that exception.
ArrayFloats(vs) == [i \in 1..Len(vs) |-> ParseFloat(vs[i]).v]
SnrValues(vs) ==
    IF Len(vs) # 1 \/ vs[1] # NotAvailable THEN ArrayFloats(vs) ELSE <<>>

\* parseOutput: metrics.width, the number before the "x" of the text (the
\* entry is the text without that suffix), 0 when it is not a number.
WidthValue(w) == IF ParseFloat(w).ok THEN ParseFloat(w).v ELSE 0

\* The three BER counters outside the mode gate, and the four counters
\* behind the mode gate, in the payload.
Counters(b, e, r) == [effectiveBer |-> b, effectiveErrors |-> e, rawBer |-> r]
Symbols(b, e, d, r) == [ber |-> b, errors |-> e, down |-> d, recovery |-> r]

\* parseOutput: the PortMetrics it returns for the payload p of a device in
\* mode p.mode and the slot label it was given.  It is called only on a
\* payload on which the FEC histogram block does not panic.
parseOutput(p, slot) ==
    LET cableType == CableType(p.cable)
        optical   == cableType = "optical"
        copper    == cableType = "copper"
    IN  [ mode          |-> p.mode,
          caname        |-> p.caname,
          netdev        |-> p.netdev,
          pkey          |-> p.pkey,
          hostname      |-> p.hostname,
          systemserial  |-> p.systemserial,
          slot          |-> slot,
          port          |-> p.port,
          width         |-> WidthValue(p.width),
          vendor        |-> p.vendor,
          partNumber    |-> p.partNumber,
          temperature   |-> ScalarValue(p.temperature),
          transferDistance |-> 0,
          snrMedia      |-> SnrValues(p.snrMedia),
          snrHost       |-> SnrValues(p.snrHost),
          effectiveBer    |-> Float(p.counters.effectiveBer),
          effectiveErrors |-> Float(p.counters.effectiveErrors),
          rawBer        |-> Float(p.counters.rawBer),
          rawErrors     |-> ArrayFloats(p.rawErrors),
          lastClearTime |-> Float(p.lastClear) * 60,
          state         |-> Lookup(stateValues, p.names.state, 0),
          physicalState |-> Lookup(physicalStateValues, p.names.physicalState, 0),
          speed         |-> Lookup(speed2bps, p.names.speed, ZeroBps),
          serial        |-> Serial(p.serial),
          moduleState   |-> Lookup(moduleStateValues, p.names.moduleState, 0),
          dataPathState |-> IF optical
                            THEN [i \in 1..Len(p.names.dataPath) |->
                                     Lookup(dataPathStateValues, p.names.dataPath[i], 0)]
                            ELSE <<>>,
          rxPower       |-> IF optical THEN LaneValues(p.rx) ELSE <<>>,
          txPower       |-> IF optical THEN LaneValues(p.tx) ELSE <<>>,
          biasCurrent   |-> IF optical THEN LaneValues(p.bias) ELSE <<>>,
          voltage       |-> IF optical THEN ScalarValue(p.voltage) ELSE 0,
          wavelength    |-> IF optical THEN ScalarValue(p.wavelength) ELSE 0,
          attenuation   |-> IF copper THEN AttenuationMap(p.atten) ELSE <<>>,
          fecErrors     |-> FecErrors(p.hist),
          symbolBer     |-> IF ModeGate(p.mode) THEN Float(p.sym.ber) ELSE 0,
          symbolErrors  |-> IF ModeGate(p.mode) THEN Float(p.sym.errors) ELSE 0,
          linkDown      |-> IF ModeGate(p.mode) THEN Float(p.sym.down) ELSE 0,
          linkRecovery  |-> IF ModeGate(p.mode) THEN Float(p.sym.recovery) ELSE 0 ]

(* -------------------------------- Collect ----------------------------- *)

\* One prometheus.MustNewConstMetric sent on the channel: the descriptor,
\* the lane, bin or speed label ("" when the descriptor has none), the
\* value and the other label values.  What Collect sends is a bag of them.
Observation(desc, label, value, labels) ==
    [desc |-> desc, label |-> label, value |-> value, labels |-> labels]

Emit(desc, label, value, labels) == SetToBag({ Observation(desc, label, value, labels) })

\* Mutant of IndexLabel: the label is the zero-based index.
IndexLabelZeroBased(idx) == Itoa(idx)

\* strconv.Itoa(laneIdx + 1), strconv.Itoa(binIdx + 1)
IndexLabel(idx) == Itoa(idx + 1)

\* for idx, value := range list { ch <- ... strconv.Itoa(idx + 1) ... },
\* for the first n elements of the list.
RECURSIVE EmitEach(_, _, _, _)
EmitEach(desc, list, n, labels) ==
    IF n = 0 THEN EmptyBag
    ELSE EmitEach(desc, list, n - 1, labels)
         (+) Emit(desc, IndexLabel(n - 1), list[n], labels)

EmitList(desc, list, labels) == EmitEach(desc, list, Len(list), labels)

\* for speedValue, attenuationValue := range port.attenuation { ch <- ... }
EmitMap(desc, map, labels) ==
    SetToBag({ Observation(desc, k, map[k], labels) : k \in DOMAIN map })

\* Collect: stdLabelValues
StdLabelValues(port) ==
    << port.mode, port.caname, port.netdev, port.serial, port.hostname,
       port.systemserial, port.vendor, port.partNumber, port.slot, port.port >>

\* NicModuleCollector.Collect, body of the loop for one port.
CollectPort(port) ==
    LET std == StdLabelValues(port)
    IN  (IF port.netdev # ""
         THEN Emit("netInfoDesc", "", 1, <<port.netdev, port.pkey>>)
         ELSE EmptyBag)
        (+) Emit("stateDesc", "", port.state, std)
        (+) Emit("physicalStateDesc", "", port.physicalState, std)
        (+) Emit("moduleStateDesc", "", port.moduleState, std)
        (+) EmitList("dataPathStateDesc", port.dataPathState, std)
        (+) Emit("speedDesc", "", port.speed, std)
        (+) Emit("widthDesc", "", port.width, std)
        (+) EmitList("biasCurrentDesc", port.biasCurrent, std)
        (+) Emit("temperatureDesc", "", port.temperature, std)
        (+) Emit("voltageDesc", "", port.voltage, std)
        (+) Emit("wavelengthDesc", "", port.wavelength, std)
        (+) Emit("transferDistanceDesc", "", port.transferDistance, std)
        (+) EmitList("rxPowerDesc", port.rxPower, std)
        (+) EmitList("txPowerDesc", port.txPower, std)
        (+) EmitList("snrMediaDesc", port.snrMedia, std)
        (+) EmitList("snrHostDesc", port.snrHost, std)
        (+) EmitMap("attenuationDesc", port.attenuation, std)
        (+) Emit("effectiveBerDesc", "", port.effectiveBer, std)
        (+) Emit("effectiveErrorsDesc", "", port.effectiveErrors, std)
        (+) Emit("rawBerDesc", "", port.rawBer, std)
        (+) EmitList("rawErrorsDesc", port.rawErrors, std)
        (+) EmitList("fecErrorsDesc", port.fecErrors, std)
        (+) (IF ModeGate(port.mode)
             THEN Emit("symbolBerDesc", "", port.symbolBer, std)
                  (+) Emit("symbolErrorsDesc", "", port.symbolErrors, std)
                  (+) Emit("linkDownDesc", "", port.linkDown, std)
                  (+) Emit("linkRecoveryDesc", "", port.linkRecovery, std)
             ELSE EmptyBag)
        (+) Emit("lastClearTimeDesc", "", port.lastClearTime, std)

(* ----------------------- getPciAddress2DeviceInfo --------------------- *)

\* A Go map is a function; the empty map is <<>>.
\* type DeviceInfo, as getPciAddress2DeviceInfo fills it (mode stays "").
DeviceInfo(a, ca, nd, pk) == [pciAddress |-> a, caName |-> ca, netDev |-> nd, pkey |-> pk]

\* The keys lookupKey can return for a value.
LookupKeys(lookupMap, lookupValue) ==
    { k \in DOMAIN lookupMap : lookupMap[k] = lookupValue }

\* lookupKey: the first key of the range over the map whose value is
\* lookupValue, "" when there is none.  The order of a range over a Go map
\* is not specified: each key with that value can be the one returned.
lookupKey(lookupMap, lookupValue) ==
    IF LookupKeys(lookupMap, lookupValue) = {} THEN {""}
    ELSE LookupKeys(lookupMap, lookupValue)

\* getPkey: the trimmed content of /sys/class/net/<netDev>/pkey, "" when
\* the file cannot be read.
getPkey(h, netDev) == IF netDev \in DOMAIN h.pkeys THEN h.pkeys[netDev] ELSE ""

\* strings.Split(string(slaves), " ") and strings.TrimSpace of each part:
\* the names of the file, and one empty name for a file without a name.
FoundSlaves(names) == IF names = <<>> THEN <<"">> ELSE names

\* getBondedIbDevice2Slaves, the loop over the entries of /proc/net/bonding.
RECURSIVE BondedSlaves(_, _, _)
BondedSlaves(h, bonds, acc) ==
    IF bonds = <<>> THEN acc
    ELSE LET bond == Head(bonds)
             next ==
                 IF bond \in DOMAIN h.netDevice2IbDevice /\ h.slaves[bond].readable
                 THEN LET ibDevice == h.netDevice2IbDevice[bond]
                          before   == IF ibDevice \in DOMAIN acc THEN acc[ibDevice] ELSE <<>>
                      IN  (ibDevice :> (before \o FoundSlaves(h.slaves[bond].names))) @@ acc
                 ELSE acc
         IN  BondedSlaves(h, Tail(bonds), next)

\* getBondedIbDevice2Slaves
getBondedIbDevice2Slaves(h) ==
    IF ~h.bondingDir THEN <<>> ELSE BondedSlaves(h, h.bonds, <<>>)

\* getPciAddress2DeviceInfo, the loop over the slaves of a bonded
\* controller; pick[a] is what lookupKey returns for the address a.
RECURSIVE AddSlaves(_, _, _, _, _)
AddSlaves(h, res, ibDevice, slaves, pick) ==
    IF slaves = <<>> THEN res
    ELSE LET slave == Head(slaves)
             next ==
                 IF slave \in DOMAIN h.netDevice2PciAddress
                 THEN LET slaveAddress == h.netDevice2PciAddress[slave]
                      IN  (slaveAddress :>
                              DeviceInfo(slaveAddress, ibDevice, pick[slaveAddress], "")) @@ res
                 ELSE res
         IN  AddSlaves(h, next, ibDevice, Tail(slaves), pick)

(* ------------------- UpdateMetrics: the dispatch loop ----------------- *)

\* discoverMellanoxDevices: the DeviceInfo of one line of lspci, with the
\* bus address and the lower-case mode and nothing else.
Discovered(a, mode) ==
    [pciAddress |-> a, mode |-> mode, caName |-> "", netDev |-> "", pkey |-> ""]

\* Mutant of MapIndex: a bus address the map lacks is given the entry of
\* another address.
MapIndexOther(m, key) ==
    IF key \in DOMAIN m THEN m[key]
    ELSE IF DOMAIN m = {} THEN DeviceInfo(<<>>, "", "", "")
    ELSE m[CHOOSE k \in DOMAIN m : TRUE]

\* pciAddress2PhysicalDeviceInfo[device.pciAddress]: the entry of the map,
\* DeviceInfo{} for a bus address the map lacks.
MapIndex(m, key) ==
    IF key \in DOMAIN m THEN m[key] ELSE DeviceInfo(<<>>, "", "", "")

\* getFunction: the number after the last "." of the bus address.
getFunction(s) ==
    LET functionStr == IF s = <<>> THEN "" ELSE s[Len(s)]
    IN  [function |-> Atoi(functionStr).n, ok |-> Atoi(functionStr).ok]

\* UpdateMetrics, body of the dispatch loop: the arguments of
\* go n.runMlxlink(hostname, systemserial, slot, port, device, responses)
\* for one discovered device.
TaskArguments(d, m, s) ==
    LET physicalDeviceInfo == MapIndex(m, d.pciAddress)
        fn == getFunction(d.pciAddress)
    IN  [ slot   |-> getSlot(s, d.pciAddress),
          port   |-> IF fn.ok THEN Itoa(fn.function + 1) ELSE "",
          device |-> [d EXCEPT !.caName = physicalDeviceInfo.caName,
                               !.netDev = physicalDeviceInfo.netDev,
                               !.pkey   = physicalDeviceInfo.pkey] ]

(* ------------------------------ parseSlots ---------------------------- *)

\* A designation is the sequence of its maximal runs of digits and of
\* other characters; "" is <<>>.
Digits(t)  == [digits |-> TRUE,  text |-> t]
Letters(t) == [digits |-> FALSE, text |-> t]

ReportDesignations ==
    { <<Letters("PCIe Slot "), Digits("38")>>,
      <<Letters("PCIe SSD Slot "), Digits("7"), Letters(" in Bay "), Digits("1")>>,
      <<Digits("2"), Letters("U Riser")>>,
      <<Letters("Riser")>> }

\* The bus addresses of the blocks; <<>> is a block without the line.
ReportAddresses == { <<>>, Addr(<<"1", "a">>, "0"), Addr(<<"1", "b">>, "0") }

\* One line of the dmidecode report: the text before the colon and the
\* text after the blanks that follow it.
Line(k, v) == [key |-> k, val |-> v]

\* strings.Contains(line, "System Slot Information")
IsSlotHeader(line) == line.key = "System Slot Information"

\* designationPattern and busAddressPattern: the line has the key and at
\* least one character after it; match[1] is that text.
MatchesDesignation(line) == line.key = "Designation" /\ line.val # <<>>
MatchesBusAddress(line)  == line.key = "Bus Address" /\ line.val # <<>>

\* The report dmidecode prints for a list of blocks, in order: a preamble,
\* then per block the handle line, the header, the designation, other
\* attributes and, when the slot has one, the bus address.
RenderBlock(b) ==
    <<Line("Handle", <<>>), Line("System Slot Information", <<>>),
      Line("Designation", b.designation), Line("Type", <<>>)>>
    \o (IF b.bus # <<>> THEN <<Line("Bus Address", b.bus)>> ELSE <<>>)

RECURSIVE RenderBlocks(_)
RenderBlocks(bs) ==
    IF bs = <<>> THEN <<>> ELSE RenderBlock(Head(bs)) \o RenderBlocks(Tail(bs))

RenderReport(bs) == <<Line("# dmidecode", <<>>)>> \o RenderBlocks(bs)

\* SlotInfo{}
EmptySlotInfo == [Designation |-> <<>>, BusAddress |-> <<>>, SlotNumber |-> ""]

\* slotNumberPattern.FindStringSubmatch: the leftmost match of \d+.
SlotNumberPattern(designation) ==
    LET runs == { i \in 1..Len(designation) : designation[i].digits }
    IN  IF runs = {} THEN [found |-> FALSE, text |-> ""]
        ELSE [found |-> TRUE,
              text |-> designation[CHOOSE i \in runs : \A j \in runs : i <= j].text]

\* Mutant of ResetSlot: the slot of the previous block is kept.
ResetSlotKeep(slot) == slot

\* parseSlots: slot = SlotInfo{} when a new block starts.
ResetSlot(slot) == EmptySlotInfo

\* parseSlots: if slot.Designation != "" { result = append(result, slot) }
AppendIfValid(result, slot) ==
    IF slot.Designation # <<>> THEN Append(result, slot) ELSE result

\* parseSlots: the body of the scanner loop for one line.
ScanLine(st, line) ==
    LET s1 == IF IsSlotHeader(line)
              THEN [result |-> AppendIfValid(st.result, st.slot),
                    slot   |-> ResetSlot(st.slot)]
              ELSE st
        m  == SlotNumberPattern(line.val)
        s2 == IF MatchesDesignation(line)
              THEN [s1 EXCEPT !.slot.Designation = line.val,
                              !.slot.SlotNumber  = IF m.found THEN m.text ELSE @]
              ELSE s1
    IN  IF MatchesBusAddress(line)
        THEN [s2 EXCEPT !.slot.BusAddress = line.val]
        ELSE s2

RECURSIVE ScanLines(_, _)
ScanLines(st, lines) ==
    IF lines = <<>> THEN st ELSE ScanLines(ScanLine(st, Head(lines)), Tail(lines))

\* parseSlots
parseSlots(output) ==
    LET st == ScanLines([result |-> <<>>, slot |-> EmptySlotInfo], output)
    IN  AppendIfValid(st.result, st.slot)

(* ------------------------------ Init ---------------------------------- *)

NotRun == "not run"

\* The state after NewNicModuleCollector and before the first cycle.
CacheInit ==
    /\ apc = "select"
    /\ arbReq = 0
    /\ cachedMetrics = InitialSnapshot
    /\ rpc = [r \in Readers |-> "idle"]
    /\ got = [r \in Readers |-> InitialSnapshot]
    /\ nreads = 0
    /\ startGen = [r \in Readers |-> 0]
    /\ wpc = "idle"
    /\ cycle = 0
    /\ devices = <<>>
    /\ ntasks = 0
    /\ discErr = FALSE
    /\ di = 0
    /\ received = 0
    /\ metrics = <<>>
    /\ tpc = [a \in Adapters |-> "none"]
    /\ tout = [a \in Adapters |-> NoOutput]
    /\ resp = [a \in Adapters |-> NoResponse]
    /\ nexec = [a \in Adapters |-> 0]
    /\ nsent = [a \in Adapters |-> 0]
    /\ crashed = FALSE
    /\ published = <<>>

SlotIdle ==
    /\ slots = <<>>
    /\ device = "1a"
    /\ slotOf = [f \in {"0", "1"} |-> NotRun]

ReportIdle ==
    /\ blocks = <<>>
    /\ parsed = NotRun

DecodeIdle ==
    /\ payload = NotRun
    /\ dpc = "idle"
    /\ decoded = NotRun
    /\ emitted = NotRun

TopologyIdle ==
    /\ host = NotRun
    /\ gpc = "idle"
    /\ unvisited = {}
    /\ pciAddress2DeviceInfo = <<>>
    /\ earlier = <<>>

IdentityIdle ==
    /\ found = <<>>
    /\ launched = <<>>

LeafIdle == ReportIdle /\ DecodeIdle /\ TopologyIdle /\ IdentityIdle

Init == CacheInit /\ SlotIdle /\ LeafIdle

(* --------------------- the collection loop (main) --------------------- *)

\* Mutant of LoopAtCall: the next call is started while the previous one is
\* still blocked in cacheMetrics.
LoopAtCallEarly == wpc \in {"idle", "publishing"}

\* main, 'for { se.NicModule.UpdateMetrics(); time.Sleep(...) }': the one
\* goroutine of the loop is at the call statement only when the previous
\* call has returned.
LoopAtCall == wpc = "idle"

\* main: the loop calls se.NicModule.UpdateMetrics() (after time.Sleep when
\* it is not the first iteration); the locals of the call are fresh.
StartCycle ==
    /\ ~crashed
    /\ LoopAtCall
    /\ cycle < MaxCycles
    /\ wpc' = "discovering"
    /\ cycle' = cycle + 1
    /\ discErr' = FALSE
    /\ UNCHANGED <<ntasks, apc, arbReq, cachedMetrics, rpc, got, nreads, startGen, devices, di,
                   received, metrics, tpc, tout, resp, nexec, nsent, crashed, published>>
    /\ UNCHANGED <<slotVars, leafVars>>

\* UpdateMetrics: devices, _ := discoverMellanoxDevices() and the topology
\* lookups; on an error of lspci devices is nil; responses := make(chan ...).
\* With no device neither loop has an iteration and cacheMetrics is called
\* with the empty list made in between.
Discover ==
    /\ ~crashed
    /\ wpc = "discovering"
    /\ \E err \in BOOLEAN :
          \E k \in 0..MaxAdapters :
             /\ err => k = 0
             /\ ntasks + k <= MaxTasks
             /\ ntasks' = ntasks + k
             /\ discErr' = err
             /\ devices' = [i \in 1..k |-> i]
             /\ wpc' = IF k = 0 THEN "publishing" ELSE "dispatching"
    /\ UNCHANGED <<apc, arbReq, cachedMetrics, rpc, got, nreads, startGen, cycle, di,
                   received, metrics, tpc, tout, resp, nexec, nsent, crashed, published>>
    /\ UNCHANGED <<slotVars, leafVars>>

\* UpdateMetrics: one iteration of the dispatch loop, go n.runMlxlink(...);
\* after the last one, metrics := make([]PortMetrics, 0, len(devices)).
Dispatch ==
    /\ ~crashed
    /\ wpc = "dispatching"
    /\ di < Len(devices)
    /\ tpc' = [tpc EXCEPT ![devices[di + 1]] = "exec"]
    /\ di' = di + 1
    /\ wpc' = IF di + 1 = Len(devices) THEN "awaiting" ELSE "dispatching"
    /\ UNCHANGED <<ntasks, apc, arbReq, cachedMetrics, rpc, got, nreads, startGen, cycle,
                   devices, discErr, received, metrics, tout, resp, nexec, nsent,
                   crashed, published>>
    /\ UNCHANGED <<slotVars, leafVars>>

\* runMlxlink up to its send statement: the tool runs, valid_output is
\* decided, parseOutput decodes the payload (and may panic, which ends the
\* process: no goroutine recovers).
RunMlxlink(a) ==
    /\ ~crashed
    /\ tpc[a] = "exec"
    /\ nexec' = [nexec EXCEPT ![a] = nexec[a] + 1]
    /\ \E out \in ToolOutputs :
          /\ tout' = [tout EXCEPT ![a] = out]
          /\ IF ValidOutput(out)
             THEN IF ParsePanics(out)
                  THEN /\ tpc' = [tpc EXCEPT ![a] = "panicked"]
                       /\ crashed' = TRUE
                       /\ resp' = resp
                  ELSE /\ tpc' = [tpc EXCEPT ![a] = PcAfterTool(TRUE)]
                       /\ resp' = [resp EXCEPT ![a] = Response(PortMetrics(a, cycle), FALSE)]
                       /\ crashed' = crashed
             ELSE /\ tpc' = [tpc EXCEPT ![a] = PcAfterTool(FALSE)]
                  /\ resp' = [resp EXCEPT ![a] = Response(ZeroPortMetrics, TRUE)]
                  /\ crashed' = crashed
    /\ UNCHANGED <<ntasks, apc, arbReq, cachedMetrics, rpc, got, nreads, startGen, wpc, cycle,
                   devices, discErr, di, received, metrics, nsent, published>>
    /\ UNCHANGED <<slotVars, leafVars>>

\* Mutant of AwaitLoopEnds: the loop ends with the first response.
AwaitLoopEndsAtFirst(i, devs) == i >= 1

\* UpdateMetrics, 'for i := 0; i < len(devices); i++': the loop ends when
\* its condition is false.
AwaitLoopEnds(i, devs) == ~(i < Len(devs))

\* UpdateMetrics: response := <-responses, meeting the send of task a on
\* the unbuffered channel, and the body of the await loop; after the last
\* iteration n.cacheMetrics(metrics) is called.  Task a returns.
Await(a) ==
    /\ ~crashed
    /\ wpc = "awaiting"
    /\ received < Len(devices)
    /\ tpc[a] = "send"
    /\ metrics' = AwaitAppend(metrics, resp[a])
    /\ received' = received + 1
    /\ wpc' = IF AwaitLoopEnds(received + 1, devices) THEN "publishing" ELSE "awaiting"
    /\ tpc' = [tpc EXCEPT ![a] = "done"]
    /\ tout' = [tout EXCEPT ![a] = NoOutput]
    /\ nsent' = [nsent EXCEPT ![a] = nsent[a] + 1]
    /\ UNCHANGED <<ntasks, apc, arbReq, cachedMetrics, rpc, got, nreads, startGen, cycle,
                   devices, discErr, di, resp, nexec, crashed, published>>
    /\ UNCHANGED <<slotVars, leafVars>>

(* --------------------------- the cache arbiter ------------------------ *)

\* Mutant of WriteCaseReady: the write case is only looked at when no
\* request is waiting.
WriteCaseReadyAfterReads == wpc = "publishing" /\ \A r \in Readers : rpc[r] # "send"

\* manageCachedMetricsAccess: the write case of the select is ready, a
\* cacheMetrics call being blocked in its send; the select has no default
\* and no order among its ready cases.
WriteCaseReady == wpc = "publishing"

\* select case newValue := <-n.cachedMetricsWrites, meeting the send of
\* cacheMetrics; cacheMetrics and UpdateMetrics return, the locals of the
\* cycle are gone.
ArbRecvWrite ==
    /\ ~crashed
    /\ apc = "select"
    /\ WriteCaseReady
    /\ cachedMetrics' = ArbWriteValue(cachedMetrics, Snapshot(cycle, metrics))
    /\ published' = Append(published, Snapshot(cycle, metrics))
    /\ wpc' = "idle"
    /\ devices' = <<>>
    /\ di' = 0
    /\ received' = 0
    /\ metrics' = <<>>
    /\ tpc' = [a \in Adapters |-> "none"]
    /\ tout' = [a \in Adapters |-> NoOutput]
    /\ resp' = [a \in Adapters |-> NoResponse]
    /\ nexec' = [a \in Adapters |-> 0]
    /\ nsent' = [a \in Adapters |-> 0]
    /\ UNCHANGED <<ntasks, apc, arbReq, rpc, got, nreads, startGen, cycle, discErr, crashed>>
    /\ UNCHANGED <<slotVars, leafVars>>

\* select case request := <-n.cachedMetricsReads, meeting the send of
\* getCachedMetrics of reader r.
ArbRecvRead(r) ==
    /\ ~crashed
    /\ apc = "select"
    /\ ReadCaseReady(r)
    /\ apc' = "respond"
    /\ arbReq' = r
    /\ rpc' = [rpc EXCEPT ![r] = "recv"]
    /\ UNCHANGED <<ntasks, cachedMetrics, got, nreads, startGen, wpc, cycle, devices, discErr, di,
                   received, metrics, tpc, tout, resp, nexec, nsent, crashed, published>>
    /\ UNCHANGED <<slotVars, leafVars>>

\* request.resp <- cachedMetrics, meeting cachedMetrics := <-request.resp of
\* reader r, whose getCachedMetrics returns.
ArbRespond(r) ==
    /\ ~crashed
    /\ apc = "respond"
    /\ arbReq = r
    /\ rpc[r] = "recv"
    /\ got' = [got EXCEPT ![r] = cachedMetrics]
    /\ rpc' = [rpc EXCEPT ![r] = "idle"]
    /\ apc' = "select"
    /\ arbReq' = 0
    /\ startGen' = [startGen EXCEPT ![r] = 0]
    /\ UNCHANGED <<ntasks, cachedMetrics, nreads, wpc, cycle, devices, discErr, di,
                   received, metrics, tpc, tout, resp, nexec, nsent, crashed, published>>
    /\ UNCHANGED <<slotVars, leafVars>>

(* ----------------------------- the readers ---------------------------- *)

\* The generation of the last cacheMetrics call that has returned, 0 when
\* none has.
LastPublishedGen ==
    IF published = <<>> THEN 0 ELSE published[Len(published)].gen

\* Collect calls getCachedMetrics: the request is made and the reader
\* blocks in n.cachedMetricsReads <- request.
ReadStart(r) ==
    /\ ~crashed
    /\ rpc[r] = "idle"
    /\ nreads < MaxReads
    /\ rpc' = [rpc EXCEPT ![r] = "send"]
    /\ nreads' = nreads + 1
    /\ UNCHANGED <<ntasks, apc, arbReq, cachedMetrics, got, startGen, wpc, cycle, devices,
                   discErr, di, received, metrics, tpc, tout, resp, nexec, nsent, crashed,
                   published>>
    /\ UNCHANGED <<slotVars, leafVars>>

\* The same call, observed: the generation that was last published when
\* it was made is noted until it returns.
ReadStartObserved(r) ==
    /\ ~crashed
    /\ rpc[r] = "idle"
    /\ nreads < MaxReads
    /\ rpc' = [rpc EXCEPT ![r] = "send"]
    /\ nreads' = nreads + 1
    /\ startGen' = [startGen EXCEPT ![r] = LastPublishedGen]
    /\ UNCHANGED <<ntasks, apc, arbReq, cachedMetrics, got, wpc, cycle, devices, discErr,
                   di, received, metrics, tpc, tout, resp, nexec, nsent, crashed, published>>
    /\ UNCHANGED <<slotVars, leafVars>>

\* A further getCachedMetrics call of a scrape handler, once the MaxReads
\* calls that are counted have been made: handlers go on calling for as
\* long as they are scraped.
ReadAgain(r) ==
    /\ ~crashed
    /\ rpc[r] = "idle"
    /\ nreads = MaxReads
    /\ rpc' = [rpc EXCEPT ![r] = "send"]
    /\ UNCHANGED <<ntasks, apc, arbReq, cachedMetrics, got, nreads, startGen, wpc, cycle,
                   devices, discErr, di, received, metrics, tpc, tout, resp, nexec, nsent,
                   crashed, published>>
    /\ UNCHANGED <<slotVars, leafVars>>

\* The steps of the collection loop, of the adapter tasks and of the arbiter.
LoopAndArbiter ==
    \/ StartCycle
    \/ Discover
    \/ Dispatch
    \/ \E a \in Adapters : RunMlxlink(a)
    \/ \E a \in Adapters : Await(a)
    \/ ArbRecvWrite
    \/ \E r \in Readers : ArbRecvRead(r)
    \/ \E r \in Readers : ArbRespond(r)

Next ==
    \/ LoopAndArbiter
    \/ \E r \in Readers : ReadStart(r)

Spec == Init /\ [][Next]_vars

\* The program with the start of every getCachedMetrics call observed.
FreshNext ==
    \/ LoopAndArbiter
    \/ \E r \in Readers : ReadStartObserved(r)

FreshSpec == Init /\ [][FreshNext]_vars


(* ------------------- Slots.getSlot on bounded inputs ------------------ *)

SlotLists == UNION { [1..n -> SlotInfos] : n \in 0..MaxSlots }

\* A parsed slot inventory and an adapter, getSlot not yet called.
SlotInit ==
    /\ CacheInit
    /\ slots \in SlotLists
    /\ device \in DeviceParts
    /\ slotOf = [f \in {"0", "1"} |-> NotRun]
    /\ LeafIdle

\* UpdateMetrics: slot := slots.getSlot(device.pciAddress) for function f.
GetSlot(f) ==
    /\ slotOf[f] = NotRun
    /\ slotOf' = [slotOf EXCEPT ![f] = getSlot(slots, Addr(device, f))]
    /\ UNCHANGED <<slots, device>>
    /\ UNCHANGED <<cacheVars, leafVars>>

SlotNext == \E f \in {"0", "1"} : GetSlot(f)

SlotSpec == SlotInit /\ [][SlotNext]_vars

(* -------------------- parseSlots on bounded reports ------------------- *)

ReportBlock(d, b) == [designation |-> d, bus |-> b]
ReportBlocks == { ReportBlock(d, b) : d \in ReportDesignations, b \in ReportAddresses }
BlockLists == UNION { [1..n -> ReportBlocks] : n \in 0..MaxSlots }

\* A firmware report of up to MaxSlots blocks, parseSlots not yet called.
ReportInit ==
    /\ CacheInit
    /\ SlotIdle
    /\ blocks \in BlockLists
    /\ parsed = NotRun
    /\ DecodeIdle
    /\ TopologyIdle
    /\ IdentityIdle

\* getSlots: return parseSlots(string(output))
ParseSlots ==
    /\ parsed = NotRun
    /\ parsed' = parseSlots(RenderReport(blocks))
    /\ UNCHANGED blocks
    /\ UNCHANGED <<cacheVars, slotVars, decodeVars, topologyVars, identityVars>>

ReportNext == ParseSlots

ReportSpec == ReportInit /\ [][ReportNext]_vars

(* ------------- parseOutput and Collect on bounded payloads ------------ *)

\* The "Cable Type" texts: an optical module, a copper cable, another
\* text, and no text at all.
CableTexts ==
    { <<"Optic", "al Module (separated)">>, <<"Passive ", "copper", " cable">>,
      <<"N/A">>, <<>> }

\* The entries of one lane of a list, and the lists of up to MaxLanes lanes.
LaneEntries == { Num(1), Num(2), Text(0) }
LaneFields ==
    { NoField } \cup { Field(es) : es \in UNION { [1..n -> LaneEntries] : n \in 1..MaxLanes } }

\* The same list with every number raised by k: the lists of two fields of
\* one payload differ.
Raised(f, k) ==
    [f EXCEPT !.entries = [i \in 1..Len(f.entries) |->
                              IF f.entries[i].num THEN Num(f.entries[i].val + k)
                              ELSE f.entries[i]]]

ScalarFields == { NoField, Field(<<Num(3248)>>), Field(<<Text(0)>>) }

AttenuationFields ==
    { NoAttenuation,
      Attenuation(<<"5g", "7g", "12g">>, <<Num(4), Num(5), Num(9)>>),
      Attenuation(<<"5g", "7g">>, <<Num(4), Text(0)>>) }

SymbolFields ==
    { Symbols(NoField, NoField, NoField, NoField),
      Symbols(Field(<<Num(3)>>), Field(<<Num(5)>>), Field(<<Num(7)>>), Field(<<Num(9)>>)),
      Symbols(Field(<<Text(0)>>), Field(<<Num(5)>>), Field(<<Num(7)>>), Field(<<Num(9)>>)) }

\* The index of a bin key.
BinIndex(k) == CHOOSE i \in 0..3 : BinKey(i) = k

\* A histogram as the tool prints it: a header and the bins 0..n-1, each
\* with a range and a count; the count of the bins of bad cannot be parsed
\* and the count of bin i is 10+i otherwise.
ToolHist(n, bad) ==
    Hist([k \in {"Header"} \cup { BinKey(i) : i \in 0..(n - 1) } |->
            IF k = "Header" THEN <<Text(0), Text(0)>>
            ELSE <<Text(0), IF BinIndex(k) \in bad THEN Text(0) ELSE Num(10 + BinIndex(k))>>])

HistFields ==
    { NoHist, MissingBin0, EmptyMap }
    \cup { ToolHist(n, bad) : n \in 0..MaxBins, bad \in SUBSET (0..(MaxBins - 1)) }

\* The names of the enumerated fields: known ones, unknown ones, none.
NameFields ==
    { [state |-> "Active", physicalState |-> "ETH_AN_FSM_ENABLE", speed |-> "200G",
       moduleState |-> "Ready state", dataPath |-> <<"DPActivated", "DPInit">>],
      [state |-> "Active", physicalState |-> "ETH_AN_FSM_ENABLE", speed |-> "200G",
       moduleState |-> "Unknown", dataPath |-> <<"DPInitialized", "Unknown">>],
      [state |-> "Polling", physicalState |-> "LinkUp", speed |-> "IB-NDR",
       moduleState |-> "Fault state", dataPath |-> <<"N/A">>],
      [state |-> "Unknown", physicalState |-> "Unknown", speed |-> "1.6T",
       moduleState |-> "Unknown", dataPath |-> <<"Unknown">>],
      [state |-> "", physicalState |-> "", speed |-> "",
       moduleState |-> "", dataPath |-> <<>>] }

\* The "Vendor Serial Number": a serial, none, and text that is not UTF-8.
SerialTexts == { "5C2410312895", "", InvalidText }

\* The slot inventories of the host: none, one in which the device of the
\* adapter has a numbered slot, one in which its slot has no number, one
\* in which only another device has a slot.
Inventories ==
    { <<>>,
      <<SlotInfo("PCIe Slot 40", Addr(<<"1", "b">>, "0")),
        SlotInfo("PCIe Slot 38", Addr(<<"1", "a">>, "0"))>>,
      <<SlotInfo("Riser", Addr(<<"1", "a">>, "0"))>>,
      <<SlotInfo("PCIe Slot 40", Addr(<<"1", "b">>, "0"))>> }

\* An active optical ethernet port with a serial and a numbered slot.
BasePayload ==
    [ mode |-> "ethernet", netdev |-> "eth0", pci |-> Addr(<<"1", "a">>, "1"),
      caname |-> "mlx5_1", pkey |-> "", port |-> "2",
      hostname |-> "node1", systemserial |-> "S123",
      vendor |-> "NVIDIA", partNumber |-> "MMA4Z00-NS400",
      width |-> Num(4), temperature |-> Field(<<Num(45)>>),
      snrMedia |-> <<NotAvailable>>, snrHost |-> <<NotAvailable>>,
      counters |-> Counters(Field(<<Num(15)>>), Field(<<Num(0)>>), Field(<<Num(5)>>)),
      rawErrors |-> <<Num(0), Num(3)>>, lastClear |-> Field(<<Num(2)>>),
      inventory |-> <<SlotInfo("PCIe Slot 38", Addr(<<"1", "a">>, "0"))>>,
      names |-> [state |-> "Active", physicalState |-> "ETH_AN_FSM_ENABLE",
                 speed |-> "200G", moduleState |-> "Ready state",
                 dataPath |-> <<"DPActivated", "DPInit">>],
      serial |-> "5C2410312895",
      cable |-> <<"Optic", "al Module (separated)">>,
      rx |-> Field(<<Num(1), Num(2)>>), tx |-> Field(<<Num(11), Num(12)>>),
      bias |-> Field(<<Num(21), Num(22)>>),
      voltage |-> Field(<<Num(3248)>>), wavelength |-> Field(<<Num(850)>>),
      atten |-> NoAttenuation, hist |-> NoHist,
      sym |-> Symbols(NoField, NoField, NoField, NoField) ]

\* The payloads of the checks: the base payload varied in the fields of
\* the cable-type branch, of the mode gate, of the histogram, and of the
\* names and labels.
CablePayloads ==
    { [BasePayload EXCEPT !.cable = c, !.rx = l, !.tx = Raised(l, 10),
                          !.bias = Raised(l, 20), !.voltage = v,
                          !.wavelength = Raised(v, 1), !.atten = a] :
        c \in CableTexts, l \in LaneFields, v \in ScalarFields, a \in AttenuationFields }

ModePayloads ==
    { [BasePayload EXCEPT !.mode = m, !.sym = y, !.cable = c, !.netdev = d,
                          !.atten = Attenuation(<<"5g", "7g">>, <<Num(4), Num(5)>>)] :
        m \in {"infiniband", "ethernet"}, y \in SymbolFields,
        c \in CableTexts, d \in {"", "ib0"} }

HistPayloads ==
    { [BasePayload EXCEPT !.hist = h, !.mode = m] :
        h \in HistFields, m \in {"infiniband", "ethernet"} }

LabelPayloads ==
    { [BasePayload EXCEPT !.names = n, !.serial = t, !.inventory = v, !.cable = c] :
        n \in NameFields, t \in SerialTexts, v \in Inventories,
        c \in { <<"Optic", "al Module (separated)">>, <<"N/A">> } }

\* The arrays of the payload that are printed per lane.
LaneArrays ==
    { <<>>, <<NotAvailable>> }
    \cup UNION { [1..n -> {Num(6), Text(0)}] : n \in 1..MaxLanes }

ShapePayloads ==
    { [BasePayload EXCEPT !.snrMedia = a, !.snrHost = Tail(a), !.rawErrors = a,
                          !.width = w, !.netdev = d,
                          !.pkey = IF d = "" THEN "" ELSE "0x8001", !.mode = m,
                          !.hist = h, !.cable = c,
                          !.atten = Attenuation(<<"5g", "7g">>, <<Num(4), Num(5)>>)] :
        a \in LaneArrays \ {<<>>}, w \in {Num(4), Text(0)}, d \in {"", "ib0"},
        m \in {"infiniband", "ethernet"}, h \in {NoHist, ToolHist(MaxBins, {})},
        c \in { <<"Optic", "al Module (separated)">>, <<"Passive ", "copper", " cable">> } }

Payloads ==
    CablePayloads \cup ModePayloads \cup HistPayloads \cup LabelPayloads
    \cup ShapePayloads

\* One task of a cycle, its tool output accepted for parsing; parseOutput
\* not yet called.
DecodeInit ==
    /\ CacheInit
    /\ SlotIdle
    /\ ReportIdle
    /\ payload \in Payloads
    /\ dpc = "parse"
    /\ decoded = NotRun
    /\ emitted = NotRun
    /\ TopologyIdle
    /\ IdentityIdle

\* UpdateMetrics: slot := slots.getSlot(device.pciAddress), and runMlxlink:
\* metrics := parseOutput(mlxout, hostname, systemserial, slot, port, device),
\* which ends the process when the histogram block panics.
Decode ==
    /\ dpc = "parse"
    /\ IF FecPanics(payload.hist)
       THEN /\ dpc' = "panicked"
            /\ decoded' = decoded
       ELSE /\ dpc' = "cached"
            /\ decoded' = parseOutput(payload, getSlot(payload.inventory, payload.pci))
    /\ UNCHANGED <<payload, emitted>>
    /\ UNCHANGED <<cacheVars, slotVars, reportVars, topologyVars, identityVars>>

\* Collect: the body of its loop for the port, once the record is in the
\* cache.
CollectDecoded ==
    /\ dpc = "cached"
    /\ dpc' = "collected"
    /\ emitted' = CollectPort(decoded)
    /\ UNCHANGED <<payload, decoded>>
    /\ UNCHANGED <<cacheVars, slotVars, reportVars, topologyVars, identityVars>>

DecodeNext == Decode \/ CollectDecoded

DecodeSpec == DecodeInit /\ [][DecodeNext]_vars

(* ------------- getPciAddress2DeviceInfo on bounded hosts -------------- *)

A0 == Addr(<<"1", "a">>, "0")
A1 == Addr(<<"1", "a">>, "1")
B0 == Addr(<<"1", "b">>, "0")
HostAddresses == {A0, A1, B0}

\* /sys/class/infiniband/*/device: one bonded controller, a bonded and a
\* plain controller, two plain controllers, two controllers at one
\* address, and a bonded controller next to a plain one of its second port.
IbDeviceMaps ==
    { ("mlx5_bond_0" :> A0),
      ("mlx5_bond_0" :> A0) @@ ("mlx5_2" :> B0),
      ("mlx5_0" :> A0) @@ ("mlx5_1" :> A1),
      ("mlx5_0" :> A0) @@ ("rxe0" :> A0),
      ("mlx5_bond_0" :> A0) @@ ("mlx5_1" :> A1) }

\* /sys/class/net/*/device: the ports, with or without the link of eth1,
\* with or without a second network device at the address of eth0.
NetDeviceMaps ==
    { ("eth0" :> A0) @@ ("eth1" :> A1) @@ ("eth2" :> B0),
      ("eth0" :> A0) @@ ("eth2" :> B0),
      ("eth0" :> A0) @@ ("pf0vf0" :> A0) @@ ("eth1" :> A1) @@ ("eth2" :> B0),
      ("eth0" :> A0) @@ ("pf0vf0" :> A0) @@ ("eth2" :> B0) }

\* /sys/class/net/bond0/bonding/slaves: readable or not, and its names.
SlavesFile(ok, names) == [readable |-> ok, names |-> names]
SlavesFiles ==
    { SlavesFile(TRUE, <<"eth0", "eth1">>), SlavesFile(TRUE, <<"eth1">>),
      SlavesFile(TRUE, <<>>), SlavesFile(FALSE, <<>>) }

Hosts ==
    { [ ibDir |-> d, ibDevice2PciAddress |-> ib, netDevice2PciAddress |-> net,
        bondingDir |-> bd, bonds |-> bs, netDevice2IbDevice |-> n2i,
        slaves |-> ("bond0" :> f) @@ ("bond1" :> SlavesFile(TRUE, <<"eth8", "eth9">>)),
        pkeys |-> ("eth2" :> "0xffff") ] :
        d \in BOOLEAN, ib \in IbDeviceMaps, net \in NetDeviceMaps, bd \in BOOLEAN,
        bs \in { <<>>, <<"bond0">>, <<"bond0", "bond1">> },
        n2i \in { <<>>, ("bond0" :> "mlx5_bond_0") }, f \in SlavesFiles }

\* A host, getPciAddress2DeviceInfo called.
TopologyInit ==
    /\ CacheInit
    /\ SlotIdle
    /\ ReportIdle
    /\ DecodeIdle
    /\ host \in Hosts
    /\ gpc = "start"
    /\ unvisited = {}
    /\ pciAddress2DeviceInfo = <<>>
    /\ earlier = <<>>
    /\ IdentityIdle

\* getPciAddress2DeviceInfo up to its loop: result := make(map...), the
\* os.Stat of /sys/class/infiniband, and the three maps.
TopologyStart ==
    /\ gpc = "start"
    /\ IF host.ibDir /\ DOMAIN host.ibDevice2PciAddress # {}
       THEN /\ gpc' = "loop"
            /\ unvisited' = DOMAIN host.ibDevice2PciAddress
       ELSE /\ gpc' = "done"
            /\ unvisited' = {}
    /\ UNCHANGED <<host, pciAddress2DeviceInfo, earlier>>
    /\ UNCHANGED <<cacheVars, slotVars, reportVars, decodeVars, identityVars>>

\* One iteration of 'for ibDevice, ibAddress := range ibDevice2PciAddress',
\* which visits the controllers in an order that is not specified; after
\* the last one the map is returned.
TopologyVisit(ibDevice) ==
    /\ gpc = "loop"
    /\ ibDevice \in unvisited
    /\ LET ibAddress == host.ibDevice2PciAddress[ibDevice]
           bondedIbDevice2Slaves == getBondedIbDevice2Slaves(host)
       IN  IF ibDevice \in DOMAIN bondedIbDevice2Slaves
           THEN \E pick \in [HostAddresses -> DOMAIN host.netDevice2PciAddress \cup {""}] :
                   /\ \A a \in HostAddresses :
                         pick[a] \in lookupKey(host.netDevice2PciAddress, a)
                   /\ pciAddress2DeviceInfo' =
                         AddSlaves(host, pciAddress2DeviceInfo, ibDevice,
                                   bondedIbDevice2Slaves[ibDevice], pick)
           ELSE \E netDev \in lookupKey(host.netDevice2PciAddress, ibAddress) :
                   pciAddress2DeviceInfo' =
                       (ibAddress :> DeviceInfo(ibAddress, ibDevice, netDev,
                                                getPkey(host, netDev)))
                       @@ pciAddress2DeviceInfo
    /\ unvisited' = unvisited \ {ibDevice}
    /\ gpc' = IF unvisited = {ibDevice} THEN "done" ELSE "loop"
    /\ UNCHANGED <<host, earlier>>
    /\ UNCHANGED <<cacheVars, slotVars, reportVars, decodeVars, identityVars>>

TopologyNext ==
    \/ TopologyStart
    \/ \E ibDevice \in {"mlx5_bond_0", "mlx5_0", "mlx5_1", "mlx5_2", "rxe0"} :
          TopologyVisit(ibDevice)

TopologySpec == TopologyInit /\ [][TopologyNext]_vars

\* UpdateMetrics of the next cycle calls getPciAddress2DeviceInfo again on
\* the same host: result := make(map[string]DeviceInfo) anew.
TopologyAgain ==
    /\ gpc = "done"
    /\ Len(earlier) + 1 < MaxRuns
    /\ earlier' = Append(earlier, pciAddress2DeviceInfo)
    /\ pciAddress2DeviceInfo' = <<>>
    /\ unvisited' = {}
    /\ gpc' = "start"
    /\ UNCHANGED host
    /\ UNCHANGED <<cacheVars, slotVars, reportVars, decodeVars, identityVars>>

RepeatNext ==
    \/ TopologyNext
    \/ TopologyAgain

\* getPciAddress2DeviceInfo called in up to MaxRuns cycles on one host.
RepeatSpec == TopologyInit /\ [][RepeatNext]_vars

(* ------ the dispatch loop of UpdateMetrics on bounded adapter lists ---- *)

\* A bus address that no class directory and no slot block of the hosts has.
C0 == Addr(<<"1", "c">>, "0")

\* What lspci lists: up to MaxAdapters different adapters, at addresses the
\* host knows or not.
DeviceLists ==
    { l \in UNION { [1..n -> { Discovered(a, "infiniband") : a \in HostAddresses \cup {C0} }] :
                      n \in 0..MaxAdapters } :
        \A i, j \in 1..Len(l) : l[i] = l[j] => i = j }

\* What parseSlots made of the firmware report: no block, the slot of the
\* first device, the slots of both devices.
HostInventories ==
    { <<>>,
      <<SlotInfo("PCIe Slot 38", A0)>>,
      <<SlotInfo("PCIe Slot 38", A0), SlotInfo("PCIe Slot 40", B0)>> }

\* UpdateMetrics has listed the adapters and read the slots;
\* getPciAddress2DeviceInfo is called.
IdentityInit ==
    /\ CacheInit
    /\ slots \in HostInventories
    /\ device = "1a"
    /\ slotOf = [f \in {"0", "1"} |-> NotRun]
    /\ ReportIdle
    /\ DecodeIdle
    /\ host \in Hosts
    /\ gpc = "start"
    /\ unvisited = {}
    /\ pciAddress2DeviceInfo = <<>>
    /\ earlier = <<>>
    /\ found \in DeviceLists
    /\ launched = <<>>

\* UpdateMetrics: one iteration of 'for _, device := range devices', up to
\* and with its go statement.
LaunchTask ==
    /\ gpc = "done"
    /\ Len(launched) < Len(found)
    /\ launched' = Append(launched,
                          TaskArguments(found[Len(launched) + 1],
                                        pciAddress2DeviceInfo, slots))
    /\ UNCHANGED found
    /\ UNCHANGED <<cacheVars, slotVars, reportVars, decodeVars, topologyVars>>

IdentityNext ==
    \/ TopologyNext
    \/ LaunchTask

IdentitySpec == IdentityInit /\ [][IdentityNext]_vars

(* ---------------------------- fairness -------------------------------- *)

\* The Go scheduler runs every goroutine that can run, and a receive on a
\* channel takes the senders blocked on it in order: a request the arbiter
\* can take is taken, a reply it can deliver is delivered.  Nothing is
\* assumed of the collection loop or of the diagnostic tool, which may hang.
ReadFairSpec ==
    /\ Spec
    /\ \A r \in Readers : WF_vars(ArbRecvRead(r)) /\ WF_vars(ArbRespond(r))

\* The scrape handlers call getCachedMetrics without end.
BusyNext ==
    \/ Next
    \/ \E r \in Readers : ReadAgain(r)

\* The arbiter under handlers that never stop.  A select with several ready
\* cases takes one of them by a uniform pseudo-random choice, so a case
\* that is ready again and again is taken; the senders blocked on one
\* channel are taken in the order in which they arrived.  Nothing is
\* assumed of the handlers, of the collection loop or of the tool.
BusyFairSpec ==
    /\ Init /\ [][BusyNext]_vars
    /\ SF_vars(ArbRecvWrite)
    /\ \A r \in Readers : SF_vars(ArbRecvRead(r)) /\ WF_vars(ArbRespond(r))


(* =============================== claims =============================== *)

\* The lists cacheMetrics has handed over so far, and the start value.
PublishedSet == { InitialSnapshot } \cup { published[i] : i \in 1..Len(published) }

\* The list the cache held before the cycle that is running or has just ended.
PreviousGeneration ==
    IF cycle >= 2 /\ Len(published) >= cycle - 1 THEN published[cycle - 1]
    ELSE InitialSnapshot

\* The step in which getCachedMetrics of reader r returns.
ReadReturns(r) == rpc[r] = "recv" /\ rpc'[r] = "idle"

\* C1: snapshot cache atomicity.  Whatever the interleaving of the writer
\* and the readers, the list a read has returned is the initial empty
\* snapshot or the whole list of one single earlier cacheMetrics call, and
\* all its records were made by the cycle of that call.
C1_SnapshotAtomicity ==
    \A r \in Readers :
        /\ got[r] \in PublishedSet
        /\ \A i \in 1..Len(got[r].recs) : got[r].recs[i].cyc = got[r].gen

\* A reader holds the records of the first generation after a second,
\* different generation with records has been published.
C1_Witness ==
    /\ Len(published) = 2
    /\ Len(published[2].recs) >= 1
    /\ \E r \in Readers : got[r] = published[1] /\ Len(got[r].recs) >= 1

\* C2: reads do not wait for a collection cycle.  A read that returns
\* while UpdateMetrics is discovering, dispatching or awaiting returns the
\* list published before that cycle, and every request a reader has made
\* is answered although no step of the cycle or of a diagnostic task is
\* ever taken again (it stays unanswered only if the process has ended).
InFlight == wpc \in {"discovering", "dispatching", "awaiting"}

C2_ReadsDoNotWait ==
    /\ [][\A r \in Readers :
            (ReadReturns(r) /\ InFlight) =>
                /\ got'[r] = PreviousGeneration
                /\ got'[r].gen = cycle - 1]_vars
    /\ \A r \in Readers : (rpc[r] # "idle") ~> (rpc[r] = "idle" \/ crashed)

\* During the second cycle, with a diagnostic tool still running, a
\* reader's request has been taken and the first generation is its reply.
C2_Witness ==
    /\ wpc = "awaiting"
    /\ cycle = 2
    /\ \E a \in Adapters : tpc[a] = "exec"
    /\ \E r \in Readers : rpc[r] = "recv"
    /\ cachedMetrics.gen = 1

\* C3: monotonic generations.  The generation a call of a reader returns
\* is never older than the one its previous call returned.
C3_MonotonicGenerations ==
    [][\A r \in Readers : got'[r].gen >= got[r].gen]_vars

\* A reader that was given generation 1 is about to be given generation 2.
C3_Witness ==
    \E r \in Readers : rpc[r] = "recv" /\ got[r].gen = 1 /\ cachedMetrics.gen = 2

\* The tasks of the running cycle that reported failure / success.
FailedTasks    == { a \in Adapters : tpc[a] = "done" /\ resp[a].error }
SucceededTasks == { a \in Adapters : tpc[a] = "done" /\ ~resp[a].error }

\* C4: partial failure count.  The list handed to cacheMetrics for a cycle
\* over K adapters of which M tasks reported failure has K-M elements, each
\* the record of a different successful task and none the zero record.
C4_PartialFailureCount ==
    wpc = "publishing" =>
        /\ Len(metrics) = Len(devices) - Cardinality(FailedTasks)
        /\ \A i \in 1..Len(metrics) :
              /\ metrics[i] # ZeroPortMetrics
              /\ \E a \in SucceededTasks : metrics[i] = resp[a].result
        /\ \A i, j \in 1..Len(metrics) : metrics[i] = metrics[j] => i = j

\* A cycle over two adapters, one of which failed, is about to publish.
C4_Witness ==
    /\ wpc = "publishing"
    /\ Len(devices) = 2
    /\ Cardinality(FailedTasks) = 1
    /\ Len(metrics) = 1

\* A terminal state in which a call of UpdateMetrics can never return.
NeverReturns == crashed /\ wpc # "idle"

\* C5: cycle completion.  No call of UpdateMetrics is left unfinished, and
\* a call that has returned has made exactly one cache write.
C5_CycleCompletes ==
    /\ ~NeverReturns
    /\ wpc = "idle" => Len(published) = cycle

\* C6: exactly one result per task.  A task that has ended has sent one
\* response, and the await loop hands over after as many responses as
\* tasks were dispatched.
C6_OneResponsePerTask ==
    /\ \A a \in Adapters : tpc[a] \in {"done", "panicked"} => nsent[a] = 1
    /\ \A a \in Adapters : nsent[a] <= 1
    /\ wpc = "publishing" => received = di /\ di = Len(devices)

\* C7 as stated: a read that returns after a cycle whose enumeration
\* failed returns the records of the previously published generation.
C7_KeepsPreviousGeneration ==
    [][\A r \in Readers :
          (ReadReturns(r) /\ wpc = "idle" /\ discErr) =>
              got'[r].recs = PreviousGeneration.recs]_vars

\* C7 amended: a cycle whose enumeration failed has an empty adapter list,
\* starts no task and does not end the process, and publishes an empty list
\* as the new generation: a read that returns after it returns that empty
\* generation.
C7_PublishesEmptyGeneration ==
    /\ [](discErr => /\ devices = <<>>
                     /\ ~crashed
                     /\ \A a \in Adapters : tpc[a] = "none")
    /\ [][\A r \in Readers :
            (ReadReturns(r) /\ wpc = "idle" /\ discErr) =>
                got'[r] = Snapshot(cycle, <<>>)]_vars

\* After a first generation with records, the enumeration of the second
\* cycle failed and a reader was given the empty second generation.
C7_Witness ==
    /\ wpc = "idle"
    /\ discErr
    /\ cycle = 2
    /\ Len(published[1].recs) >= 1
    /\ \E r \in Readers : got[r] = Snapshot(2, <<>>)

\* The outcomes the claim names as successes.
Tolerated(out) ==
    \/ out.exit = 0
    \/ /\ out.exit # 0
       /\ \E i \in 1..Len(out.msg) : out.msg[i] \in {FecActiveOnly, FecNotSupported}

\* The record of adapter a is in the list of the running cycle.
InMetrics(a) == \E i \in 1..Len(metrics) : metrics[i].adapter = a

\* C8: tolerated-failure classification.  The response a task sends says
\* success, with the decoded record of its adapter, exactly when the tool
\* exited with zero or with one of the two tolerated messages; a task that
\* reported failure has no record in the list of its cycle, a task that
\* reported success has one.
C8_ToleratedFailures ==
    \A a \in Adapters :
        /\ tpc[a] = "send" =>
              /\ ~resp[a].error <=> Tolerated(tout[a])
              /\ ~resp[a].error => resp[a].result = PortMetrics(a, cycle)
              /\ resp[a].error => resp[a].result = ZeroPortMetrics
        /\ tpc[a] = "done" => (InMetrics(a) <=> ~resp[a].error)
        /\ tpc[a] \notin {"send", "done"} => ~InMetrics(a)

\* One task is sending success after a non-zero exit with "not supported",
\* the other has reported failure and left no record.
C8_Witness ==
    \E a, b \in Adapters :
        /\ tpc[a] = "send"
        /\ tout[a].exit # 0
        /\ Contains(tout[a].msg, FecNotSupported)
        /\ ~resp[a].error
        /\ tpc[b] = "done"
        /\ resp[b].error
        /\ ~InMetrics(b)

\* C9: no process-ending condition in decoding.  No tool output accepted
\* for parsing makes a task end without a response and end the process.
C9_NoAbortInDecoding ==
    /\ ~crashed
    /\ \A a \in Adapters : tpc[a] # "panicked"

\* The slots of the inventory whose bus address is the function 0 of the device.
SlotHits == { i \in 1..Len(slots) : slots[i].BusAddress = Addr(device, "0") }

\* C10: slot matching under function normalization.  getSlot gives the
\* same slot number for function 0 and function 1 of a device, the
\* SlotNumber of the first slot whose bus address is the function 0 address.
C10_SlotOfBothFunctions ==
    /\ \A f \in {"0", "1"} :
          (slotOf[f] # NotRun /\ SlotHits # {}) =>
              \E i \in SlotHits :
                  /\ \A j \in SlotHits : i <= j
                  /\ slotOf[f] = slots[i].SlotNumber
    /\ (slotOf["0"] # NotRun /\ slotOf["1"] # NotRun) => slotOf["0"] = slotOf["1"]

\* Both functions of a device resolved to slot 40, the second slot of the list.
C10_Witness ==
    /\ slotOf["0"] = "40"
    /\ slotOf["1"] = "40"
    /\ Len(slots) = 2
    /\ slots[1].BusAddress # Addr(device, "0")

\* C11: slot-inventory parsing.  parseSlots returns one SlotInfo per block
\* of the report, in the order of the blocks; its Designation and
\* BusAddress are those of its own block (BusAddress empty when the block
\* has none), and its SlotNumber is the first run of digits of its own
\* designation, whatever text precedes it, and empty when it has no digit.
C11_ParseSlotsRoundTrip ==
    parsed # NotRun =>
        /\ Len(parsed) = Len(blocks)
        /\ \A i \in 1..Len(blocks) :
              LET d == blocks[i].designation
              IN  /\ parsed[i].Designation = d
                  /\ parsed[i].BusAddress = blocks[i].bus
                  /\ \A k \in 1..Len(d) :
                        (d[k].digits /\ \A j \in 1..(k - 1) : ~d[j].digits)
                            => parsed[i].SlotNumber = d[k].text
                  /\ (\A k \in 1..Len(d) : ~d[k].digits) => parsed[i].SlotNumber = ""

\* A report whose first block has a bus address and a designation with two
\* runs of digits after other text, and whose second block has neither a
\* bus address nor a digit, has been parsed.
C11_Witness ==
    /\ parsed # NotRun
    /\ Len(blocks) = 2
    /\ blocks[1].bus # <<>>
    /\ Len(blocks[1].designation) = 4
    /\ parsed[1].SlotNumber = "7"
    /\ blocks[2].bus = <<>>
    /\ parsed[2].BusAddress = <<>>
    /\ parsed[2].SlotNumber = ""

\* The record parseOutput returned is in decoded.
Returned == dpc \in {"cached", "collected"}

\* C12: FEC histogram decoding.  In a record parseOutput returned for an
\* output with a histogram, fecErrors has one element per bin of the map,
\* the element of index i is the count of "Bin i", and -1 when that count
\* cannot be parsed, whatever the other bins hold; for an output without a
\* histogram fecErrors has length zero.
C12_FecHistogramDecoding ==
    Returned =>
        IF ~payload.hist.exists
        THEN decoded.fecErrors = <<>>
        ELSE LET bins == payload.hist.bins
                 keys == DOMAIN bins \ {"Header"}
             IN  /\ Len(decoded.fecErrors) = Cardinality(keys)
                 /\ \A k \in keys :
                       decoded.fecErrors[BinIndex(k) + 1] =
                           IF bins[k][2].num THEN bins[k][2].val ELSE -1

\* A histogram of two bins, the count of bin 0 unparsable and that of bin
\* 1 equal to 11, was decoded into -1 and 11.
C12_Witness ==
    /\ Returned
    /\ payload.hist = ToolHist(2, {0})
    /\ decoded.fecErrors = <<-1, 11>>

\* The numbers of a text of the payload all of whose entries parse.
AllParse(f)  == \A i \in 1..Len(f.entries) : f.entries[i].num
NumbersOf(f) == [i \in 1..Len(f.entries) |-> f.entries[i].val]

\* The cable type the payload reports.
IsOptical(p) == \E i \in 1..Len(p.cable) : p.cable[i] = "Optic"
IsCopper(p)  == ~IsOptical(p) /\ \E i \in 1..Len(p.cable) : p.cable[i] \in {"Copper", "copper"}

\* C13: cable-type branching.  For an optical payload the record holds
\* the bias currents, rx powers, tx powers and the wavelength of the
\* payload and an empty attenuation map; for a copper payload it holds the
\* attenuation of the payload, speed by speed, empty bias, rx and tx lists
\* and wavelength zero; for any other payload all of these are empty or
\* zero.  (A list with an unparsable entry is the subject of C19.)
C13_CableTypeBranching ==
    Returned =>
        LET p == payload
        IN  /\ IsOptical(p) =>
                  /\ AllParse(p.rx) => decoded.rxPower = NumbersOf(p.rx)
                  /\ AllParse(p.tx) => decoded.txPower = NumbersOf(p.tx)
                  /\ AllParse(p.bias) => decoded.biasCurrent = NumbersOf(p.bias)
                  /\ AllParse(p.wavelength) =>
                        decoded.wavelength =
                            (IF p.wavelength.exists THEN p.wavelength.entries[1].val ELSE 0)
                  /\ DOMAIN decoded.attenuation = {}
            /\ IsCopper(p) =>
                  /\ AllParse(p.atten) =>
                        /\ DOMAIN decoded.attenuation =
                               { p.atten.speeds[i] : i \in 1..Len(p.atten.entries) }
                        /\ \A i \in 1..Len(p.atten.entries) :
                               decoded.attenuation[p.atten.speeds[i]] = p.atten.entries[i].val
                  /\ decoded.biasCurrent = <<>>
                  /\ decoded.rxPower = <<>>
                  /\ decoded.txPower = <<>>
                  /\ decoded.wavelength = 0
            /\ (~IsOptical(p) /\ ~IsCopper(p)) =>
                  /\ DOMAIN decoded.attenuation = {}
                  /\ decoded.biasCurrent = <<>>
                  /\ decoded.rxPower = <<>>
                  /\ decoded.txPower = <<>>
                  /\ decoded.wavelength = 0

\* An optical payload that also carries an attenuation key was decoded into
\* two lanes of bias, rx and tx, a wavelength, and no attenuation.
C13_Witness ==
    /\ Returned
    /\ IsOptical(payload)
    /\ payload.atten.exists
    /\ decoded.rxPower = <<1, 2>>
    /\ decoded.txPower = <<11, 12>>
    /\ decoded.biasCurrent = <<21, 22>>
    /\ decoded.wavelength = 3249
    /\ DOMAIN decoded.attenuation = {}

\* C14: voltage scaling.  The payload gives the voltage under the key
\* "Voltage [mV]"; the record of an optical port holds that number of
\* millivolts unchanged, and no record holds it multiplied by 1000: the
\* voltage of a record is the number of the payload or zero (no voltage
\* in the payload, a text that does not parse, a port that is not optical).
C14_VoltageInMillivolts ==
    Returned =>
        LET v == payload.voltage
        IN  /\ (IsOptical(payload) /\ v.exists /\ AllParse(v)) =>
                   decoded.voltage = v.entries[1].val
            /\ ~(IsOptical(payload) /\ v.exists /\ AllParse(v)) => decoded.voltage = 0
            /\ (v.exists /\ AllParse(v)) => decoded.voltage # v.entries[1].val * 1000

\* An optical payload with "Voltage [mV]" 3248 was decoded into 3248.
C14_Witness ==
    /\ Returned
    /\ IsOptical(payload)
    /\ payload.voltage = Field(<<Num(3248)>>)
    /\ decoded.voltage = 3248

\* The number a counter of the payload stands for: zero when it is absent
\* or is not a number.
NumberOf(f) == IF f.exists /\ f.entries # <<>> /\ f.entries[1].num THEN f.entries[1].val ELSE 0

\* C15: mode-gated decoding.  In the record of an adapter in ethernet mode
\* symbolBer, symbolErrors, linkDown and linkRecovery are zero whatever the
\* payload reports for them; in infiniband mode they are the numbers of the
\* payload.
C15_ModeGatedDecoding ==
    Returned =>
        /\ payload.mode = "ethernet" =>
              /\ decoded.symbolBer = 0
              /\ decoded.symbolErrors = 0
              /\ decoded.linkDown = 0
              /\ decoded.linkRecovery = 0
        /\ payload.mode = "infiniband" =>
              /\ decoded.symbolBer = NumberOf(payload.sym.ber)
              /\ decoded.symbolErrors = NumberOf(payload.sym.errors)
              /\ decoded.linkDown = NumberOf(payload.sym.down)
              /\ decoded.linkRecovery = NumberOf(payload.sym.recovery)

\* The payload of an ethernet adapter reports the four counters as 3, 5, 7
\* and 9, and the record holds zero for each.
C15_Witness ==
    /\ Returned
    /\ payload.mode = "ethernet"
    /\ NumberOf(payload.sym.ber) = 3
    /\ NumberOf(payload.sym.recovery) = 9
    /\ decoded.symbolBer = 0
    /\ decoded.linkRecovery = 0

\* Collect has sent the observations of the port.
Collected == dpc = "collected"

\* The descriptors of the observations Collect sent.
EmittedDescs == { o.desc : o \in BagToSet(emitted) }

SymbolDescs  == { "symbolBerDesc", "symbolErrorsDesc", "linkDownDesc", "linkRecoveryDesc" }
OpticalDescs == { "voltageDesc", "wavelengthDesc", "biasCurrentDesc", "rxPowerDesc", "txPowerDesc" }

\* C16: projection omits gated fields.  For a port that is not in
\* infiniband mode Collect sends no symbol-BER, symbol-error, link-down or
\* link-recovery observation; for a port that is not optical it sends no
\* voltage, wavelength, bias-current, rx-power or tx-power observation; for
\* a port that is not copper it sends no attenuation observation.
C16_GatedFieldsOmitted ==
    Collected =>
        /\ payload.mode # "infiniband" => EmittedDescs \cap SymbolDescs = {}
        /\ ~IsOptical(payload) => EmittedDescs \cap OpticalDescs = {}
        /\ ~IsCopper(payload) => "attenuationDesc" \notin EmittedDescs

\* The slot of the adapter is in no block of the inventory.
SlotUnmatched ==
    \A i \in 1..Len(payload.inventory) :
        payload.inventory[i].BusAddress # SlotAddress(payload.pci)

\* C17: label sentinel.  In every record the slot label is "unknown" when
\* the adapter matches no slot of the inventory, the serial label is
\* "unknown" when the payload has no serial or one that is not valid
\* text, and neither label is the empty string.
C17_LabelsNeverEmpty ==
    Returned =>
        /\ SlotUnmatched => decoded.slot = "unknown"
        /\ payload.serial \in {"", InvalidText} => decoded.serial = "unknown"
        /\ decoded.slot # ""
        /\ decoded.serial # ""

\* The codes of the names the payloads use, as the source lists them.
KnownStates         == ("Active" :> 3) @@ ("Polling" :> 2)
KnownPhysicalStates == ("ETH_AN_FSM_ENABLE" :> 10) @@ ("LinkUp" :> 7)
KnownSpeeds         == ("200G" :> Bps(2, 11)) @@ ("IB-NDR" :> Bps(4, 11))
KnownModuleStates   == ("Ready state" :> 3) @@ ("Fault state" :> 5)
KnownDataPathStates == ("DPActivated" :> 4) @@ ("DPInit" :> 2) @@
                       ("DPInitialized" :> 7) @@ ("N/A" :> 0)

CodeOf(known, name, zero) == IF name \in DOMAIN known THEN known[name] ELSE zero

\* C18: enumerated-field decoding.  State, physical state, module state,
\* speed and, for an optical module, the data-path state of every lane
\* are the table codes of the names of the payload ("Active" 3,
\* "ETH_AN_FSM_ENABLE" 10, "200G" 200000000000), and 0 for a name that is
\* not in the table or is missing; a payload with such a name still yields
\* its record.
C18_EnumeratedFields ==
    /\ (dpc # "parse" /\ ~payload.hist.exists) => Returned
    /\ Returned =>
          LET n == payload.names
          IN  /\ decoded.state = CodeOf(KnownStates, n.state, 0)
              /\ decoded.physicalState = CodeOf(KnownPhysicalStates, n.physicalState, 0)
              /\ decoded.speed = CodeOf(KnownSpeeds, n.speed, ZeroBps)
              /\ decoded.moduleState = CodeOf(KnownModuleStates, n.moduleState, 0)
              /\ IsOptical(payload) =>
                    /\ Len(decoded.dataPathState) = Len(n.dataPath)
                    /\ \A i \in 1..Len(n.dataPath) :
                          decoded.dataPathState[i] = CodeOf(KnownDataPathStates, n.dataPath[i], 0)

\* An optical payload with state "Active", physical state
\* "ETH_AN_FSM_ENABLE", speed "200G", an unknown module state and an
\* unknown data-path state in its second lane was decoded.
C18_Witness ==
    /\ Returned
    /\ IsOptical(payload)
    /\ payload.names.moduleState = "Unknown"
    /\ decoded.state = 3
    /\ decoded.physicalState = 10
    /\ decoded.speed = Bps(2, 11)
    /\ decoded.moduleState = 0
    /\ decoded.dataPathState = <<7, 0>>

\* The array the claim expects for a per-lane text: one element per entry,
\* the number of the entry, or 0 for an entry that cannot be parsed.
ZeroFilled(f) ==
    [i \in 1..Len(f.entries) |-> IF f.entries[i].num THEN f.entries[i].val ELSE 0]

\* C19: unparsable list entries default to zero.  For an optical payload
\* the rx-power, tx-power and bias-current arrays of the record have one
\* element per entry of the comma-separated text, 0 at the position of an
\* entry that cannot be parsed and the parsed number at every other
\* position.
C19_UnparsableEntryIsZero ==
    (Returned /\ IsOptical(payload)) =>
        /\ decoded.rxPower = ZeroFilled(payload.rx)
        /\ decoded.txPower = ZeroFilled(payload.tx)
        /\ decoded.biasCurrent = ZeroFilled(payload.bias)

\* getPciAddress2DeviceInfo has returned its map on a host with the
\* infiniband class directory.
Resolved == gpc = "done" /\ host.ibDir

\* The bonds of the controller: the bond interfaces of the bonding
\* directory that ibdev2netdev pairs with it and whose slave list can be
\* read; and the slaves of those bonds that have a bus address.
BondsOf(c) ==
    { i \in 1..Len(host.bonds) :
        /\ host.bondingDir
        /\ host.bonds[i] \in DOMAIN host.netDevice2IbDevice
        /\ host.netDevice2IbDevice[host.bonds[i]] = c
        /\ host.slaves[host.bonds[i]].readable }

SlavesOf(c) ==
    { n \in DOMAIN host.netDevice2PciAddress :
        \E i \in BondsOf(c) :
            \E j \in 1..Len(host.slaves[host.bonds[i]].names) :
                host.slaves[host.bonds[i]].names[j] = n }

\* C20: bonding resolution.  For a controller with a bond entry the bus
\* address of each of its slaves maps to the identity made of that slave
\* and the bonded controller; for a controller without a bond entry, and
\* on a host without a bonding directory, the controller's own bus address
\* maps to the controller and a network device linked to that address (no
\* name when there is none).
C20_BondingResolution ==
    Resolved =>
        \A c \in DOMAIN host.ibDevice2PciAddress :
            IF BondsOf(c) # {}
            THEN \A n \in SlavesOf(c) :
                    LET a == host.netDevice2PciAddress[n]
                    IN  /\ a \in DOMAIN pciAddress2DeviceInfo
                        /\ pciAddress2DeviceInfo[a].caName = c
                        /\ pciAddress2DeviceInfo[a].netDev = n
            ELSE LET a == host.ibDevice2PciAddress[c]
                 IN  /\ a \in DOMAIN pciAddress2DeviceInfo
                     /\ pciAddress2DeviceInfo[a].caName = c
                     /\ pciAddress2DeviceInfo[a].netDev
                            \in lookupKey(host.netDevice2PciAddress, a)

\* The dispatch loop has launched the task of the i-th listed adapter.
Launched(i) == gpc = "done" /\ i \in 1..Len(launched)

\* The bus address of the i-th listed adapter is in no entry of the map
\* and in no slot block.
InNoMap(i)  == found[i].pciAddress \notin DOMAIN pciAddress2DeviceInfo
InNoSlot(i) ==
    \A k \in 1..Len(slots) : slots[k].BusAddress # SlotAddress(found[i].pciAddress)

\* C21: topology failure isolation.  Every iteration of the dispatch loop
\* launches the task of the next listed adapter, whatever its lookups give:
\* an adapter in no topology map is launched with empty controller name,
\* network device and partition key, one in no slot block with an empty
\* slot, and every adapter that is in the map or in a slot block carries
\* the entry of its own bus address, whatever the other adapters of the
\* list are.
C21_TopologyFailureIsolation ==
    /\ [](\A i \in 1..Len(found) : Launched(i) =>
             LET d == launched[i].device
                 a == found[i].pciAddress
             IN  /\ d.pciAddress = a
                 /\ d.mode = found[i].mode
                 /\ InNoMap(i) => d.caName = "" /\ d.netDev = "" /\ d.pkey = ""
                 /\ ~InNoMap(i) =>
                       /\ d.caName = pciAddress2DeviceInfo[a].caName
                       /\ d.netDev = pciAddress2DeviceInfo[a].netDev
                       /\ d.pkey = pciAddress2DeviceInfo[a].pkey
                 /\ InNoSlot(i) => launched[i].slot \in {"", "unknown"}
                 /\ ~InNoSlot(i) => launched[i].slot \in {"38", "40"})
    /\ []((gpc = "done" /\ Len(launched) < Len(found)) => ENABLED LaunchTask)
    /\ [][(gpc = "done" /\ Len(launched) < Len(found)) =>
             Len(launched') = Len(launched) + 1]_vars
    /\ [](Len(launched) <= Len(found))

\* The first listed adapter, in no map and in no slot block, was launched
\* with an empty identity, and the second one with the controller, the
\* network device and the slot of its own bus address.
C21_Witness ==
    /\ gpc = "done"
    /\ Len(found) = 2
    /\ Len(launched) = 2
    /\ InNoMap(1)
    /\ InNoSlot(1)
    /\ launched[1].device.caName = ""
    /\ launched[1].slot = ""
    /\ launched[2].device.pciAddress = A0
    /\ launched[2].device.caName = "mlx5_0"
    /\ launched[2].device.netDev = "eth0"
    /\ launched[2].slot = "38"

\* The adapters discovered in the running cycle.
DiscoveredAdapters == { devices[i] : i \in 1..Len(devices) }

\* C22: one-shot invocation.  In a cycle the tool is never invoked twice
\* for an adapter, also not after an invocation that failed, and never for
\* an adapter that was not discovered; the dispatch loop launches the
\* tasks of the discovered adapters in order and skips none, and when the
\* await loop has ended the tool has been invoked exactly once for each
\* discovered adapter.
C22_OneShotInvocation ==
    /\ [](\A a \in Adapters :
             /\ nexec[a] <= 1
             /\ nexec[a] = 1 => a \in DiscoveredAdapters
             /\ (tpc[a] \in {"send", "done"} /\ resp[a].error) => nexec[a] = 1)
    /\ [](wpc \in {"dispatching", "awaiting", "publishing"} =>
             \A i \in 1..Len(devices) : (tpc[devices[i]] # "none") <=> (i <= di))
    /\ [](wpc \in {"awaiting", "publishing"} => di = Len(devices))
    /\ [](wpc = "publishing" => \A a \in DiscoveredAdapters : nexec[a] = 1)
    /\ [][\A a \in Adapters :
            nexec'[a] # nexec[a] =>
                \/ nexec[a] = 0 /\ nexec'[a] = 1 /\ tpc[a] = "exec"
                \/ wpc' = "idle"]_vars

\* The await loop of a cycle over two adapters has ended; the tool of one
\* adapter failed, and each tool was invoked once.
C22_Witness ==
    /\ wpc = "publishing"
    /\ Len(devices) = 2
    /\ \E a \in DiscoveredAdapters : resp[a].error
    /\ \E a \in DiscoveredAdapters : ~resp[a].error
    /\ \A a \in DiscoveredAdapters : nexec[a] = 1

\* The multiset of the elements of a list.
BagOfSeq(seq) ==
    [x \in { seq[i] : i \in 1..Len(seq) } |->
        Cardinality({ i \in 1..Len(seq) : seq[i] = x })]

\* The records of the tasks of the running cycle whose response was
\* received and says success: one per such task.
SucceededRecords == SetToBag({ resp[a].result : a \in SucceededTasks })

\* C23: interleaving independence.  In every state of the await loop,
\* whatever the order in which the tasks finished and however many of them
\* are waiting to send at once, the list holds each record of a received
\* successful response once and nothing else; the list a cycle publishes
\* holds, once each, the records of the discovered adapters whose tool
\* outcome was accepted, a multiset that the outcomes alone determine.
C23_InterleavingIndependence ==
    /\ [](wpc \in {"awaiting", "publishing"} => BagOfSeq(metrics) = SucceededRecords)
    /\ [][Len(published') > Len(published) =>
            /\ published'[Len(published')].gen = cycle
            /\ BagOfSeq(published'[Len(published')].recs) =
                  SetToBag({ PortMetrics(a, cycle) :
                               a \in { b \in DiscoveredAdapters : ~resp[b].error } })]_vars

\* Two tasks succeeded and the second adapter finished first: the list
\* about to be published has the two records in the reverse of the
\* dispatch order.
C23_Witness ==
    /\ wpc = "publishing"
    /\ devices = <<1, 2>>
    /\ metrics = <<PortMetrics(2, cycle), PortMetrics(1, cycle)>>

\* The observations Collect sent with descriptor d, and how many it sent.
Sent(d) == { o \in BagToSet(emitted) : o.desc = d }
NumberSent(d) == BagCardinality([o \in Sent(d) |-> emitted[o]])

\* The scalar fields of the cached port by descriptor: those sent in every
\* mode and those sent in infiniband mode only.
ScalarFieldOf ==
    ("stateDesc" :> decoded.state) @@ ("physicalStateDesc" :> decoded.physicalState) @@
    ("moduleStateDesc" :> decoded.moduleState) @@ ("speedDesc" :> decoded.speed) @@
    ("widthDesc" :> decoded.width) @@ ("temperatureDesc" :> decoded.temperature) @@
    ("voltageDesc" :> decoded.voltage) @@ ("wavelengthDesc" :> decoded.wavelength) @@
    ("transferDistanceDesc" :> decoded.transferDistance) @@
    ("effectiveBerDesc" :> decoded.effectiveBer) @@
    ("effectiveErrorsDesc" :> decoded.effectiveErrors) @@
    ("rawBerDesc" :> decoded.rawBer) @@ ("lastClearTimeDesc" :> decoded.lastClearTime)

SymbolFieldOf ==
    ("symbolBerDesc" :> decoded.symbolBer) @@ ("symbolErrorsDesc" :> decoded.symbolErrors) @@
    ("linkDownDesc" :> decoded.linkDown) @@ ("linkRecoveryDesc" :> decoded.linkRecovery)

\* The per-lane and per-bin lists of the cached port by descriptor.
ListFieldOf ==
    ("dataPathStateDesc" :> decoded.dataPathState) @@
    ("biasCurrentDesc" :> decoded.biasCurrent) @@ ("rxPowerDesc" :> decoded.rxPower) @@
    ("txPowerDesc" :> decoded.txPower) @@ ("snrMediaDesc" :> decoded.snrMedia) @@
    ("snrHostDesc" :> decoded.snrHost) @@ ("rawErrorsDesc" :> decoded.rawErrors) @@
    ("fecErrorsDesc" :> decoded.fecErrors)

\* The identity labels of the cached port, and the decimal text of i + 1.
IdentityLabels ==
    << decoded.mode, decoded.caname, decoded.netdev, decoded.serial, decoded.hostname,
       decoded.systemserial, decoded.vendor, decoded.partNumber, decoded.slot,
       decoded.port >>
OneMore(i) == <<"1", "2", "3", "4", "5", "6", "7", "8", "9">>[i + 1]

\* One observation of that descriptor was sent, and it is this one.
SentOnce(d, label, value, labels) ==
    /\ Sent(d) = { [desc |-> d, label |-> label, value |-> value, labels |-> labels] }
    /\ NumberSent(d) = 1

C25_FreshAfterPublication ==
    /\ [](\A i \in 1..Len(published) : published[i].gen = i)
    /\ [][\A r \in Readers :
            ReadReturns(r) =>
                /\ got'[r].gen >= startGen[r]
                /\ got'[r].gen >= 1 => got'[r] = published[got'[r].gen]]_vars

\* A call that started after the second generation had replaced a first
\* generation with other records is about to be answered with the second.
C25_Witness ==
    \E r \in Readers :
        /\ rpc[r] = "recv"
        /\ apc = "respond"
        /\ arbReq = r
        /\ startGen[r] = 2
        /\ cachedMetrics = published[2]
        /\ published[1].recs # <<>>
        /\ published[1].recs # published[2].recs

\* The cacheMetrics calls that are blocked in their send.
PendingWrites == IF wpc = "publishing" THEN cycle - Len(published) ELSE 0

\* C26: cycles never overlap.  A call of UpdateMetrics starts only when
\* every earlier call has made its cache write and returned and no task of
\* it is left; at every moment at most one call is between start and
\* return and at most one cache write is pending; and every response
\* waiting to be sent, every record of the list being built and every
\* record of a published generation was made by a task of that same cycle.
C26_CyclesNeverOverlap ==
    /\ [][cycle' # cycle =>
            /\ cycle' = cycle + 1
            /\ wpc = "idle"
            /\ Len(published) = cycle
            /\ \A a \in Adapters : tpc[a] = "none"]_vars
    /\ [](cycle - Len(published) \in {0, 1})
    /\ []((wpc # "idle") => (cycle - Len(published) = 1))
    /\ [](PendingWrites \in {0, 1})
    /\ [](\A a \in Adapters :
             (tpc[a] \in {"send", "done"} /\ ~resp[a].error) => resp[a].result.cyc = cycle)
    /\ [](\A i \in 1..Len(metrics) : metrics[i].cyc = cycle)
    /\ [](\A k \in 1..Len(published) :
             \A i \in 1..Len(published[k].recs) : published[k].recs[i].cyc = k)

\* The second cycle is about to publish records of its own tasks after the
\* first cycle has published records of its tasks.
C26_Witness ==
    /\ cycle = 2
    /\ wpc = "publishing"
    /\ PendingWrites = 1
    /\ Len(published) = 1
    /\ published[1].recs # <<>>
    /\ metrics # <<>>

\* The step in which cacheMetrics, and with it UpdateMetrics, returns.
UpdateMetricsReturns == wpc = "publishing" /\ wpc' = "idle"

\* C27: no task outlives its cycle.  From the end of the await loop to the
\* return of UpdateMetrics every task dispatched in the cycle has delivered
\* its one response and has ended: none is running the tool, none is
\* blocked in its send, whatever the order in which they finished.
C27_NoTaskOutlivesCycle ==
    /\ [](wpc = "publishing" =>
             /\ \A a \in DiscoveredAdapters : tpc[a] = "done" /\ nsent[a] = 1
             /\ \A a \in Adapters \ DiscoveredAdapters : tpc[a] = "none"
             /\ received = Len(devices))
    /\ [][UpdateMetricsReturns =>
            /\ \A a \in Adapters : tpc[a] \notin {"exec", "send"}
            /\ Cardinality({ a \in Adapters : tpc[a] = "done" }) = di]_vars

\* The await loop of a cycle over two adapters has ended, the adapter
\* dispatched last having finished first; both tasks have ended.
C27_Witness ==
    /\ wpc = "publishing"
    /\ devices = <<1, 2>>
    /\ \A a \in DiscoveredAdapters : tpc[a] = "done" /\ nsent[a] = 1
    /\ Len(metrics) = 2
    /\ metrics[1].adapter = 2

\* C28: the writer is not starved.  A cacheMetrics call that is blocked in
\* its send is accepted by the arbiter and returns, also when the handlers
\* call getCachedMetrics without end; and a getCachedMetrics call that is
\* waiting, a write being pending or not, returns (it stays unanswered
\* only if the process has ended).
C28_WriterNotStarved ==
    /\ (wpc = "publishing") ~> (wpc = "idle")
    /\ \A c \in 1..MaxCycles :
          (wpc = "publishing" /\ cycle = c) ~> (Len(published) >= c)
    /\ \A r \in Readers :
          (rpc[r] # "idle" /\ wpc = "publishing") ~> (rpc[r] = "idle" \/ crashed)

\* A write is pending while, the counted calls being used up, one handler
\* is waiting for the arbiter and the arbiter is answering another.
C28_Witness ==
    /\ wpc = "publishing"
    /\ nreads = MaxReads
    /\ apc = "respond"
    /\ \E r \in Readers : rpc[r] = "send" /\ arbReq # r
    /\ Len(published) >= 1

\* A later call of getPciAddress2DeviceInfo on the host has returned.
ResolvedAgain == gpc = "done" /\ earlier # <<>>

\* C29: identity resolution is deterministic.  Every call of
\* getPciAddress2DeviceInfo on one host returns a map with the same bus
\* addresses and, for each of them, the same controller name and the same
\* network-device name as the calls before it.
C29_DeterministicIdentity ==
    ResolvedAgain =>
        \A k \in 1..Len(earlier) :
            /\ DOMAIN pciAddress2DeviceInfo = DOMAIN earlier[k]
            /\ \A a \in DOMAIN pciAddress2DeviceInfo :
                  /\ pciAddress2DeviceInfo[a].caName = earlier[k][a].caName
                  /\ pciAddress2DeviceInfo[a].netDev = earlier[k][a].netDev

\* C30: physical-state codes are unambiguous.  The physical-state value of
\* a record decoded from a state name of the table is the code of that
\* name and of no other name of the table.
C30_PhysicalStateCodesUnambiguous ==
    (Returned /\ payload.names.physicalState \in DOMAIN physicalStateValues) =>
        \A name \in DOMAIN physicalStateValues :
            physicalStateValues[name] = decoded.physicalState =>
                name = payload.names.physicalState

====
